---- MODULE Spec2Model ----
(***************************************************************************)
(* Session / authentication / blacklist subsystem of the products API.     *)
(* Time is counted in hours.  The cache store (Redis) is a map from keys   *)
(* to [val, exp]; every HTTP handler is one action.                        *)
(***************************************************************************)
EXTENDS Integers, Sequences, FiniteSets, TLC

VARIABLES
    now,          \* wall clock, in hours
    extras,       \* number of steps taken beyond one user's one login (see Extra)
    users,        \* relational store: e-mail -> [id, password]
    store,        \* cache store: key -> [val, exp]
    nextSession,  \* next fresh session identifier (uuid.New)
    issued,       \* tokens handed to clients so far
    blacklisted,  \* history: [token, at] of every successful BlacklistToken
    loggedOut,    \* history: tokens whose Logout request was answered 200
    blacklistedAll, \* history: [user, session, at], sessions held at a successful BlacklistAllUserSessions
    loggedOutAll, \* history: [user, session, at], sessions held at a LogoutAll answered 200
    resp,         \* the last request and its response
    calls,        \* concurrent service calls in flight: caller -> [pc, user, session, err]
    written,      \* history: <<user, session id>> of every index write, in the order made
    products,     \* relational store: product id -> product row
    minted,       \* product ids handed out so far (uuid.New)
    minute,       \* wall clock of the product requests, in minutes
    served,       \* number of product requests served
    reply         \* the last product request and its result

vars == <<now, extras, users, store, nextSession, issued,
          blacklisted, loggedOut, blacklistedAll, loggedOutAll, resp,
          calls, written, products, minted, minute, served, reply>>

\* the state of the calls that run concurrently, step by step
raceVars == <<calls, written>>

\* the state of the product catalogue
productVars == <<products, minted, minute, served, reply>>

\* what the session and authentication handlers, each run to completion,
\* leave alone
beyondRequests == <<raceVars, productVars>>

(***************************************************************************)
(* Bounds of the model.                                                    *)
(***************************************************************************)
MaxEarly == 1
MaxLate == 1
MaxExtras == 2
MaxSessions == 3
StoreLag == 1
MaxOutage == 9
MaxFaults == 2
MaxCalls == 3       \* service calls that run concurrently

(***************************************************************************)
(* Program constants, in hours.                                            *)
(***************************************************************************)
AccessTokenTTL == 1
RefreshTokenTTL == 7 * 24
SessionDuration == 24
BlacklistTTL == 24

Emails == {"a@x.com", "b@x.com"}
Passwords == {"Aa1!aaaa"}
WrongPassword == "wrong"
\* the instants at which requests arrive: the first hours, and the hours
\* around the expiry of the sessions created then
Instants == (0..MaxEarly) \cup (SessionDuration..(SessionDuration + MaxLate))

\* uuid.New() at registration: one identifier per e-mail address
UserIdOf(email) == IF email = "a@x.com" THEN "A" ELSE "B"
UserIds == {UserIdOf(e) : e \in Emails}
EmailOf(u) == CHOOSE e \in Emails : UserIdOf(e) = u

NoClaim == ""
NoSessionId == 0

(***************************************************************************)
(* CacheService.  Every cache operation can fail (the store is unreachable *)
(* or the operation times out).  A request works on a handle               *)
(* c = [store, n, faults, hit, log, failed]: the cache store, the number   *)
(* of operations issued so far, which operations of the request fail,      *)
(* whether one has failed, the operations issued and those that failed.    *)
(***************************************************************************)
\* faults = [from, at]: the operations numbered from `from` on fail (from = 0:
\* none), and so do the operations whose number is in `at`
NoOutage == [from |-> 0, at |-> {}]

\* a lasting outage that starts during the request, or up to MaxFaults
\* operations that fail while the others succeed
Faults ==
    {[from |-> k, at |-> {}] : k \in 0..MaxOutage}
    \cup {[from |-> 0, at |-> x] :
            x \in {y \in SUBSET (1..MaxOutage) : Cardinality(y) <= MaxFaults}}

\* whether the next operation of the request fails
Failing(c) ==
    \/ c.faults.from # 0 /\ c.n + 1 >= c.faults.from
    \/ (c.n + 1) \in c.faults.at

\* one operation issued that succeeded
Spend(c, op, key) ==
    [c EXCEPT !.n = @ + 1, !.log = Append(@, <<op, key[1]>>)]

\* one operation issued that failed
Down(c, op, key) ==
    [c EXCEPT !.n = @ + 1, !.hit = TRUE, !.log = Append(@, <<op, key[1]>>),
              !.failed = Append(@, <<op, key[1]>>)]

\* the handle of a request whose cache operations fail as `faults` says
Handle(st, faults) ==
    [store |-> st, n |-> 0, faults |-> faults, hit |-> FALSE, log |-> <<>>,
     failed |-> <<>>]

\* the handle of a request during which no cache operation fails
Reachable(st) == Handle(st, NoOutage)

\* a Set that writes only when the key is absent
CacheSetNX(c, key, value, t, expiration) ==
    IF Failing(c) THEN [err |-> "unavailable", c |-> Down(c, "Set", key)]
    ELSE [err |-> "",
          c |-> [Spend(c, "Set", key) EXCEPT !.store =
                    [k \in DOMAIN c.store \cup {key} |->
                        IF k = key /\ key \notin DOMAIN c.store
                        THEN [val |-> value, exp |-> t + expiration]
                        ELSE c.store[k]]]]

CacheSet(c, key, value, t, expiration) ==
    IF Failing(c) THEN [err |-> "unavailable", c |-> Down(c, "Set", key)]
    ELSE [err |-> "",
          c |-> [Spend(c, "Set", key) EXCEPT !.store =
                    [k \in DOMAIN c.store \cup {key} |->
                        IF k = key
                        THEN [val |-> value, exp |-> t + expiration]
                        ELSE c.store[k]]]]

CacheGet(c, key) ==
    IF Failing(c)
    THEN [err |-> "unavailable", val |-> 0, c |-> Down(c, "Get", key)]
    ELSE IF key \notin DOMAIN c.store
    THEN [err |-> "redis: nil", val |-> 0, c |-> Spend(c, "Get", key)]
    ELSE [err |-> "", val |-> c.store[key].val, c |-> Spend(c, "Get", key)]

\* a Delete that reports a key that was not there as an error
CacheDeleteStrict(c, key) ==
    IF Failing(c) THEN [err |-> "unavailable", c |-> Down(c, "Del", key)]
    ELSE IF key \notin DOMAIN c.store
    THEN [err |-> "redis: nil", c |-> Spend(c, "Del", key)]
    ELSE [err |-> "",
          c |-> [Spend(c, "Del", key) EXCEPT !.store =
                    [k \in DOMAIN c.store \ {key} |-> c.store[k]]]]

CacheDelete(c, key) ==
    IF Failing(c) THEN [err |-> "unavailable", c |-> Down(c, "Del", key)]
    ELSE [err |-> "",
          c |-> [Spend(c, "Del", key) EXCEPT !.store =
                    [k \in DOMAIN c.store \ {key} |-> c.store[k]]]]

CacheExists(c, key) ==
    IF Failing(c)
    THEN [err |-> "unavailable", exists |-> FALSE, c |-> Down(c, "Exists", key)]
    ELSE [err |-> "", exists |-> key \in DOMAIN c.store,
          c |-> Spend(c, "Exists", key)]

\* Client.Keys(ctx, prefix ":*")
CacheKeys(c, prefix) ==
    IF Failing(c)
    THEN [err |-> "unavailable", keys |-> {}, c |-> Down(c, "Keys", <<prefix>>)]
    ELSE [err |-> "", keys |-> {k \in DOMAIN c.store : k[1] = prefix},
          c |-> Spend(c, "Keys", <<prefix>>)]

(***************************************************************************)
(* Key formats                                                             *)
(***************************************************************************)
SessionKey(sessionID) == <<"session", sessionID, 0>>
UserSessionsKey(userID) == <<"user_sessions", userID, 0>>
BlacklistKey(tokenHash) == <<"blacklist", tokenHash, 0>>
\* a bulk-blacklist key that names the user alone
UserBlacklistKeyPerUser(userID, sessionID) == <<"user_blacklist", userID, 0>>

UserBlacklistKey(userID, sessionID) == <<"user_blacklist", userID, sessionID>>

(***************************************************************************)
(* Tokens.  A signed token string is determined by its header (alg), its   *)
(* claims and its signature.                                               *)
(***************************************************************************)
NoToken == [user_id |-> NoClaim, session_id |-> NoSessionId, type |-> "",
            exp |-> 0, alg |-> "", sig |-> FALSE]

generateAccessToken(userID, sessionID, t) ==
    [user_id |-> userID, session_id |-> sessionID, type |-> "access",
     exp |-> t + AccessTokenTTL, alg |-> "HS256", sig |-> TRUE]

generateRefreshToken(userID, sessionID, t) ==
    [user_id |-> userID, session_id |-> sessionID, type |-> "refresh",
     exp |-> t + RefreshTokenTTL, alg |-> "HS256", sig |-> TRUE]

\* a digest of the user and session claims alone
hashTokenClaims(token) == <<token.user_id, token.session_id>>

\* sha256 over the raw token string: a digest of every part of the token
hashToken(token) ==
    <<token.user_id, token.session_id, token.type, token.exp, token.alg, token.sig>>

\* the signing methods of type *jwt.SigningMethodHMAC
SigningMethodHMAC == {"HS256", "HS384", "HS512"}

\* a verification that does not look at the expiry
ParseTokenNoExpiry(token, t) ==
    /\ token.alg \in SigningMethodHMAC
    /\ token.sig

\* a verification that takes any signing method
ParseTokenAnyMethod(token, t) ==
    /\ token.sig
    /\ t < token.exp

\* jwt.Parse with the HMAC key function: algorithm family, signature, expiry
ParseToken(token, t) ==
    /\ token.alg \in SigningMethodHMAC
    /\ token.sig
    /\ t < token.exp

(***************************************************************************)
(* SessionService                                                          *)
(***************************************************************************)
NoSession == [id |-> NoSessionId, user_id |-> NoClaim, email |-> "",
              created_at |-> 0, expires_at |-> 0, is_active |-> FALSE]

\* a CreateSession that stamps the session with its creation time as expiry
CreateSessionNoDuration(c, sessionID, userID, email, t, duration) ==
    LET session == [id |-> sessionID, user_id |-> userID, email |-> email,
                    created_at |-> t, expires_at |-> t, is_active |-> TRUE]
        w1 == CacheSet(c, SessionKey(sessionID), session, t, duration)
        w2 == CacheSet(w1.c, UserSessionsKey(userID), sessionID, t, duration)
    IN  IF w1.err # ""
        THEN [err |-> "failed to store session", session |-> NoSession, c |-> w1.c]
        ELSE IF w2.err # ""
        THEN [err |-> "failed to store user session index",
              session |-> NoSession, c |-> w2.c]
        ELSE [err |-> "", session |-> session, c |-> w2.c]

\* a CreateSession that gives the index entry the lifetime of an access token
CreateSessionShortIndex(c, sessionID, userID, email, t, duration) ==
    LET session == [id |-> sessionID, user_id |-> userID, email |-> email,
                    created_at |-> t, expires_at |-> t + duration,
                    is_active |-> TRUE]
        w1 == CacheSet(c, SessionKey(sessionID), session, t, duration)
        w2 == CacheSet(w1.c, UserSessionsKey(userID), sessionID, t,
                       AccessTokenTTL)
    IN  IF w1.err # ""
        THEN [err |-> "failed to store session", session |-> NoSession, c |-> w1.c]
        ELSE IF w2.err # ""
        THEN [err |-> "failed to store user session index",
              session |-> NoSession, c |-> w2.c]
        ELSE [err |-> "", session |-> session, c |-> w2.c]

CreateSession(c, sessionID, userID, email, t, duration) ==
    LET session == [id |-> sessionID, user_id |-> userID, email |-> email,
                    created_at |-> t, expires_at |-> t + duration,
                    is_active |-> TRUE]
        w1 == CacheSet(c, SessionKey(sessionID), session, t, duration)
        w2 == CacheSet(w1.c, UserSessionsKey(userID), sessionID, t, duration)
    IN  IF w1.err # ""
        THEN [err |-> "failed to store session", session |-> NoSession, c |-> w1.c]
        ELSE IF w2.err # ""
        THEN [err |-> "failed to store user session index",
              session |-> NoSession, c |-> w2.c]
        ELSE [err |-> "", session |-> session, c |-> w2.c]

\* a DeleteSession that removes the user's index entry and leaves the record
DeleteSessionIndexOnly(c, sessionID) ==
    LET g == CacheGet(c, SessionKey(sessionID)) IN
    IF g.err = ""
    THEN CacheDelete(g.c, UserSessionsKey(g.val.user_id))
    ELSE [err |-> "", c |-> g.c]

DeleteSession(c, sessionID) ==
    LET key == SessionKey(sessionID)
        g == CacheGet(c, key)
        c1 == IF g.err = ""
              THEN CacheDelete(g.c, UserSessionsKey(g.val.user_id)).c
              ELSE g.c
    IN  CacheDelete(c1, key)

GetSession(c, sessionID, t) ==
    LET g == CacheGet(c, SessionKey(sessionID)) IN
    IF g.err # ""
    THEN [err |-> "session not found", session |-> NoSession, c |-> g.c]
    ELSE IF t > g.val.expires_at
    THEN [err |-> "session expired", session |-> NoSession,
          c |-> DeleteSession(g.c, sessionID).c]
    ELSE [err |-> "", session |-> g.val, c |-> g.c]

\* an IsSessionValid that trusts GetSession for the expiry
IsSessionValidNoExpiry(c, sessionID, t) ==
    LET g == GetSession(c, sessionID, t) IN
    IF g.err # ""
    THEN [valid |-> FALSE, err |-> "", c |-> g.c]
    ELSE [valid |-> g.session.is_active, err |-> "", c |-> g.c]

IsSessionValid(c, sessionID, t) ==
    LET g == GetSession(c, sessionID, t) IN
    IF g.err # ""
    THEN [valid |-> FALSE, err |-> "", c |-> g.c]
    ELSE [valid |-> g.session.is_active /\ t < g.session.expires_at,
          err |-> "", c |-> g.c]

RefreshSession(c, sessionID, t, duration) ==
    LET g == GetSession(c, sessionID, t) IN
    IF g.err # ""
    THEN [err |-> g.err, c |-> g.c]
    ELSE CacheSet(g.c, SessionKey(sessionID),
                  [g.session EXCEPT !.expires_at = t + duration], t, duration)

\* the scans below visit the keys returned by Keys in ascending order
FirstKey(keys) == CHOOSE k \in keys : \A x \in keys : k[2] <= x[2]

RECURSIVE CollectSessions(_, _, _, _, _)
CollectSessions(c, keys, userID, t, acc) ==
    IF keys = {} THEN [sessions |-> acc, c |-> c]
    ELSE LET key == FirstKey(keys)
             g == CacheGet(c, key)
             take == /\ g.err = ""
                     /\ g.val.user_id = userID
                     /\ g.val.is_active
                     /\ t < g.val.expires_at
         IN  CollectSessions(g.c, keys \ {key}, userID, t,
                             IF take THEN Append(acc, g.val) ELSE acc)

\* SessionService.GetUserSessions
GetUserSessions(c, userID, t) ==
    LET ks == CacheKeys(c, "session") IN
    IF ks.err # ""
    THEN [err |-> "failed to get session keys", sessions |-> <<>>, c |-> ks.c]
    ELSE LET r == CollectSessions(ks.c, ks.keys, userID, t, <<>>)
         IN  [err |-> "", sessions |-> r.sessions, c |-> r.c]

GetActiveSessionsCount(c, userID, t) ==
    LET ks == CacheKeys(c, "session") IN
    IF ks.err # ""
    THEN [err |-> "failed to get session keys", count |-> 0, c |-> ks.c]
    ELSE LET r == CollectSessions(ks.c, ks.keys, userID, t, <<>>)
         IN  [err |-> "", count |-> Len(r.sessions), c |-> r.c]

RECURSIVE DeleteMatching(_, _, _)
DeleteMatching(c, keys, userID) ==
    IF keys = {} THEN c
    ELSE LET key == FirstKey(keys)
             g == CacheGet(c, key)
             c1 == IF g.err = "" /\ g.val.user_id = userID
                   THEN CacheDelete(g.c, key).c
                   ELSE g.c
         IN  DeleteMatching(c1, keys \ {key}, userID)

DeleteUserSessions(c, userID) ==
    LET ks == CacheKeys(c, "session") IN
    IF ks.err # ""
    THEN [err |-> "failed to get session keys", c |-> ks.c]
    ELSE CacheDelete(DeleteMatching(ks.c, ks.keys, userID),
                     UserSessionsKey(userID))

(***************************************************************************)
(* UserService: blacklist, logout                                          *)
(***************************************************************************)
BlacklistToken(c, token, t) ==
    CacheSet(c, BlacklistKey(hashToken(token)), TRUE, t, BlacklistTTL)

\* a blacklist lookup that reports "not blacklisted" when the store fails
IsTokenBlacklistedFailOpen(c, token) ==
    [CacheExists(c, BlacklistKey(hashToken(token))) EXCEPT !.err = ""]

IsTokenBlacklisted(c, token) ==
    CacheExists(c, BlacklistKey(hashToken(token)))

IsUserSessionBlacklisted(c, userID, sessionID) ==
    CacheExists(c, UserBlacklistKey(userID, sessionID))

\* a bulk blacklisting that goes on to the next session when a write fails
RECURSIVE BlacklistSessionsBestEffort(_, _, _, _)
BlacklistSessionsBestEffort(c, userID, sessions, t) ==
    IF sessions = <<>> THEN [err |-> "", c |-> c]
    ELSE BlacklistSessionsBestEffort(
             CacheSet(c, UserBlacklistKey(userID, Head(sessions).id),
                      TRUE, t, BlacklistTTL).c,
             userID, Tail(sessions), t)

RECURSIVE BlacklistSessions(_, _, _, _)
BlacklistSessions(c, userID, sessions, t) ==
    IF sessions = <<>> THEN [err |-> "", c |-> c]
    ELSE LET w == CacheSet(c, UserBlacklistKey(userID, Head(sessions).id),
                           TRUE, t, BlacklistTTL)
         IN  IF w.err # ""
             THEN [err |-> "failed to blacklist session", c |-> w.c]
             ELSE BlacklistSessions(w.c, userID, Tail(sessions), t)

BlacklistAllUserSessions(c, userID, t) ==
    LET g == GetUserSessions(c, userID, t) IN
    IF g.err # ""
    THEN [err |-> "failed to get user sessions", c |-> g.c]
    ELSE BlacklistSessions(g.c, userID, g.sessions, t)

\* a Logout that ends every session of the session's user
UserLogoutEverywhere(c, sessionID) ==
    LET g == CacheGet(c, SessionKey(sessionID)) IN
    IF g.err = ""
    THEN DeleteUserSessions(g.c, g.val.user_id)
    ELSE DeleteSession(g.c, sessionID)

\* UserService.Logout
UserLogout(c, sessionID) == DeleteSession(c, sessionID)

\* UserService.LogoutAll; blacklisted tells whether the first half succeeded
UserLogoutAll(c, userID, t) ==
    LET b == BlacklistAllUserSessions(c, userID, t) IN
    IF b.err # ""
    THEN [err |-> "failed to blacklist user sessions", blacklisted |-> FALSE,
          c |-> b.c]
    ELSE LET d == DeleteUserSessions(b.c, userID)
         IN  [err |-> d.err, blacklisted |-> TRUE, c |-> d.c]

(***************************************************************************)
(* AuthMiddleware                                                          *)
(***************************************************************************)
CheckOrder == <<"header", "token", "session", "token_blacklist", "user_blacklist">>

NoCtx == [user_id |-> NoClaim, session_id |-> NoSessionId, token |-> NoToken]

\* a failure response that does not abort the chain of handlers
AuthFailNoAbort(check, message, c) ==
    [status |-> 401, message |-> message, failed |-> check,
     checks |-> SubSeq(CheckOrder, 1, check), ctx |-> NoCtx,
     next |-> TRUE, c |-> c]

\* c.JSON(401, ...) ; c.Abort() ; return
AuthFail(check, message, c) ==
    [status |-> 401, message |-> message, failed |-> check,
     checks |-> SubSeq(CheckOrder, 1, check), ctx |-> NoCtx,
     next |-> FALSE, c |-> c]

\* a middleware that verifies the token and nothing else
AuthMiddlewareTokenOnly(header, c, t) ==
    IF header.scheme = ""
    THEN AuthFail(1, "Authorization header is required", c)
    ELSE IF header.scheme # "Bearer"
    THEN AuthFail(1, "Invalid authorization header format", c)
    ELSE LET tokenString == header.token IN
    IF ~ParseToken(tokenString, t)
    THEN AuthFail(2, "Invalid or expired token", c)
    ELSE IF tokenString.user_id = NoClaim
    THEN AuthFail(2, "Invalid user ID in token", c)
    ELSE IF tokenString.session_id = NoSessionId
    THEN AuthFail(2, "Invalid session ID in token", c)
    ELSE IF tokenString.user_id \notin UserIds
    THEN AuthFail(2, "Invalid user ID format", c)
    ELSE [status |-> 200, message |-> "", failed |-> 0, checks |-> CheckOrder,
          ctx |-> [user_id |-> tokenString.user_id,
                   session_id |-> tokenString.session_id,
                   token |-> tokenString],
          next |-> TRUE, c |-> c]

\* a middleware that consults the token blacklist before the session
AuthMiddlewareBlacklistFirst(header, c, t) ==
    IF header.scheme = ""
    THEN AuthFail(1, "Authorization header is required", c)
    ELSE IF header.scheme # "Bearer"
    THEN AuthFail(1, "Invalid authorization header format", c)
    ELSE LET tokenString == header.token IN
    IF ~ParseToken(tokenString, t)
    THEN AuthFail(2, "Invalid or expired token", c)
    ELSE IF tokenString.user_id = NoClaim
    THEN AuthFail(2, "Invalid user ID in token", c)
    ELSE IF tokenString.session_id = NoSessionId
    THEN AuthFail(2, "Invalid session ID in token", c)
    ELSE IF tokenString.user_id \notin UserIds
    THEN AuthFail(2, "Invalid user ID format", c)
    ELSE LET tb == IsTokenBlacklisted(c, tokenString) IN
    IF tb.err # "" \/ tb.exists
    THEN AuthFail(4, "Token has been invalidated", tb.c)
    ELSE LET v == IsSessionValid(tb.c, tokenString.session_id, t) IN
    IF v.err # "" \/ ~v.valid
    THEN AuthFail(3, "Session expired or invalid", v.c)
    ELSE LET ub == IsUserSessionBlacklisted(v.c, tokenString.user_id,
                                            tokenString.session_id) IN
    IF ub.err # "" \/ ub.exists
    THEN AuthFail(5, "Session has been invalidated by logout all", ub.c)
    ELSE [status |-> 200, message |-> "", failed |-> 0, checks |-> CheckOrder,
          ctx |-> [user_id |-> tokenString.user_id,
                   session_id |-> tokenString.session_id,
                   token |-> tokenString],
          next |-> TRUE, c |-> ub.c]

\* a middleware that looks the session up before it verifies the token
AuthMiddlewareSessionFirst(header, c, t) ==
    IF header.scheme = ""
    THEN AuthFail(1, "Authorization header is required", c)
    ELSE IF header.scheme # "Bearer"
    THEN AuthFail(1, "Invalid authorization header format", c)
    ELSE LET tokenString == header.token
             v == IsSessionValid(c, tokenString.session_id, t)
         IN
    IF ~ParseToken(tokenString, t)
    THEN AuthFail(2, "Invalid or expired token", v.c)
    ELSE IF tokenString.user_id = NoClaim
    THEN AuthFail(2, "Invalid user ID in token", v.c)
    ELSE IF tokenString.session_id = NoSessionId
    THEN AuthFail(2, "Invalid session ID in token", v.c)
    ELSE IF tokenString.user_id \notin UserIds
    THEN AuthFail(2, "Invalid user ID format", v.c)
    ELSE IF v.err # "" \/ ~v.valid
    THEN AuthFail(3, "Session expired or invalid", v.c)
    ELSE LET tb == IsTokenBlacklisted(v.c, tokenString) IN
    IF tb.err # "" \/ tb.exists
    THEN AuthFail(4, "Token has been invalidated", tb.c)
    ELSE LET ub == IsUserSessionBlacklisted(tb.c, tokenString.user_id,
                                            tokenString.session_id) IN
    IF ub.err # "" \/ ub.exists
    THEN AuthFail(5, "Session has been invalidated by logout all", ub.c)
    ELSE [status |-> 200, message |-> "", failed |-> 0, checks |-> CheckOrder,
          ctx |-> [user_id |-> tokenString.user_id,
                   session_id |-> tokenString.session_id,
                   token |-> tokenString],
          next |-> TRUE, c |-> ub.c]

AuthMiddleware(header, c, t) ==
    IF header.scheme = ""
    THEN AuthFail(1, "Authorization header is required", c)
    ELSE IF header.scheme # "Bearer"
    THEN AuthFail(1, "Invalid authorization header format", c)
    ELSE LET tokenString == header.token IN
    IF ~ParseToken(tokenString, t)
    THEN AuthFail(2, "Invalid or expired token", c)
    ELSE IF tokenString.user_id = NoClaim
    THEN AuthFail(2, "Invalid user ID in token", c)
    ELSE IF tokenString.session_id = NoSessionId
    THEN AuthFail(2, "Invalid session ID in token", c)
    ELSE IF tokenString.user_id \notin UserIds
    THEN AuthFail(2, "Invalid user ID format", c)
    ELSE LET v == IsSessionValid(c, tokenString.session_id, t) IN
    IF v.err # "" \/ ~v.valid
    THEN AuthFail(3, "Session expired or invalid", v.c)
    ELSE LET tb == IsTokenBlacklisted(v.c, tokenString) IN
    IF tb.err # "" \/ tb.exists
    THEN AuthFail(4, "Token has been invalidated", tb.c)
    ELSE LET ub == IsUserSessionBlacklisted(tb.c, tokenString.user_id,
                                            tokenString.session_id) IN
    IF ub.err # "" \/ ub.exists
    THEN AuthFail(5, "Session has been invalidated by logout all", ub.c)
    ELSE [status |-> 200, message |-> "", failed |-> 0, checks |-> CheckOrder,
          ctx |-> [user_id |-> tokenString.user_id,
                   session_id |-> tokenString.session_id,
                   token |-> tokenString],
          next |-> TRUE, c |-> ub.c]

(***************************************************************************)
(* Requests a client can send                                              *)
(***************************************************************************)
NoHeader == [scheme |-> "", token |-> NoToken]

Bearer(token) == [scheme |-> "Bearer", token |-> token]

\* a token with a bad signature and a token signed with another algorithm
Forged == {[tk EXCEPT !.sig = FALSE] : tk \in {x \in issued : x.session_id = 1 /\ x.type = "access"}}
          \cup {[tk EXCEPT !.alg = "RS256"] : tk \in {x \in issued : x.session_id = 1 /\ x.type = "refresh"}}

Presentable == issued \cup Forged

Headers ==
    {NoHeader, [scheme |-> "Basic", token |-> NoToken]}
    \cup {Bearer(tk) : tk \in Presentable}

\* the five checks of the gatekeeper, each judged on its own against the
\* cache store as it is when the request arrives
Passes(header, st, t) ==
    LET tk == header.token
        key == SessionKey(tk.session_id)
    IN  <<header.scheme = "Bearer",
          /\ tk.alg = "HS256" /\ tk.sig /\ t < tk.exp
          /\ tk.user_id \in UserIds /\ tk.session_id # NoSessionId,
          /\ key \in DOMAIN st
          /\ st[key].val.is_active
          /\ t < st[key].val.expires_at,
          BlacklistKey(hashToken(tk)) \notin DOMAIN st,
          UserBlacklistKey(tk.user_id, tk.session_id) \notin DOMAIN st>>

NoResp == [route |-> "", header |-> NoHeader, pre |-> <<>>, hit |-> FALSE,
           lost |-> <<>>,
           status |-> 0, message |-> "", failed |-> 0, checks |-> <<>>,
           next |-> FALSE, ctx |-> NoCtx, handler |-> "",
           session |-> NoSessionId, user |-> NoClaim, tokens |-> {}]

\* what the middleware contributes to the response of a protected route
Gated(route, header, a) ==
    [NoResp EXCEPT !.route = route, !.header = header,
                   !.pre = Passes(header, store, now),
                   !.status = a.status, !.message = a.message,
                   !.failed = a.failed, !.checks = a.checks,
                   !.next = a.next, !.ctx = a.ctx]

\* response of a request the middleware aborted
Aborted(route, header, a) ==
    [Gated(route, header, a) EXCEPT !.hit = a.c.hit, !.lost = a.c.failed]

\* response of a request whose handler ran, on the handle c it ended with
Handled(route, header, a, c, status, message) ==
    [Gated(route, header, a) EXCEPT !.handler = route, !.hit = c.hit,
                                    !.lost = c.failed,
                                    !.status = status, !.message = message,
                                    !.session = a.ctx.session_id,
                                    !.user = a.ctx.user_id]

\* sessions of userID that are stored, active and unexpired
HeldSessions(st, userID, t) ==
    {id \in 1..MaxSessions :
        /\ SessionKey(id) \in DOMAIN st
        /\ st[SessionKey(id)].val.user_id = userID
        /\ st[SessionKey(id)].val.is_active
        /\ t < st[SessionKey(id)].val.expires_at}

(***************************************************************************)
(* Product catalogue.  Prices are counted in cents, the time of product    *)
(* requests in minutes.  A pointer field of a request is Ptr(v) or nil:     *)
(* Nil for a number, NilText for a string.                                 *)
(***************************************************************************)
MaxProducts == 2    \* products ever created
MaxRequests == 4    \* product requests served
MaxTroubles == 1    \* product requests met by a failure, and clock steps

ProductTTL == 30
UserProductsTTL == 15
QueryTTL == 5
StatsTTL == 10
DefaultPageSize == 20
LowStock == 10

ProductIds == 1..MaxProducts
NoProductId == 0

\* the float64 +Inf, which strconv.ParseFloat returns for "Inf": a price
\* filter above every price
PosInf == 1000000

Nil == [set |-> FALSE, v |-> 0]
NilText == [set |-> FALSE, v |-> <<>>]
Ptr(v) == [set |-> TRUE, v |-> v]

NoProduct == [id |-> NoProductId, user_id |-> NoClaim, name |-> <<>>,
              description |-> "", price |-> 0, stock |-> 0,
              created_at |-> 0, updated_at |-> 0]

\* id.String() and uuid.Parse
UuidString(id) == <<"uuid", id>>
ParseUuid(str) ==
    IF str[1] = "uuid" THEN [err |-> "", id |-> str[2]]
    ELSE [err |-> "invalid UUID format", id |-> NoProductId]

\* the orders in which the relational store can hold its rows
Heaps == {h \in [ProductIds -> ProductIds] : \A i, j \in ProductIds : h[i] = h[j] => i = j}

\* the relational store as a request finds it: the table, the order of its
\* rows, and whether it answers
Database(table, heap, up) == [table |-> table, heap |-> heap, up |-> up]

\* the rows of the table in the order the store holds them
Rows(db) ==
    LET ids == SelectSeq(db.heap, LAMBDA i : i \in DOMAIN db.table)
    IN  [k \in 1..Len(ids) |-> db.table[ids[k]]]

(***************************************************************************)
(* ProductRepository                                                       *)
(***************************************************************************)
GetByUserID(db, userID) ==
    IF ~db.up THEN [err |-> "database unavailable", products |-> <<>>]
    ELSE [err |-> "",
          products |-> SelectSeq(Rows(db), LAMBDA r : r.user_id = userID)]

RepoGetByID(db, id) ==
    IF ~db.up THEN [err |-> "database unavailable", product |-> NoProduct]
    ELSE IF id \notin DOMAIN db.table
    THEN [err |-> "product not found", product |-> NoProduct]
    ELSE [err |-> "", product |-> db.table[id]]

Alphabet == <<"a", "b", "c">>
Code(ch) == CHOOSE i \in DOMAIN Alphabet : Alphabet[i] = ch

\* LOWER(): the letters of the model are lower case already
Lower(name) == name

\* filters whose price bounds exclude the bound itself
applyFiltersExclusive(rows, filter) ==
    SelectSeq(rows, LAMBDA r :
        /\ filter.min_price.set => r.price > filter.min_price.v
        /\ filter.max_price.set => r.price < filter.max_price.v)

\* name LIKE '%' || part || '%'
Like(name, part) ==
    \E i \in 0..Len(name) :
        /\ i + Len(part) <= Len(name)
        /\ \A k \in 1..Len(part) : name[i + k] = part[k]

applyFilters(rows, filter) ==
    SelectSeq(rows, LAMBDA r :
        /\ (filter.name.set /\ filter.name.v # <<>>) =>
              Like(Lower(r.name), Lower(filter.name.v))
        /\ filter.min_price.set => r.price >= filter.min_price.v
        /\ filter.max_price.set => r.price <= filter.max_price.v
        /\ filter.min_stock.set => r.stock >= filter.min_stock.v
        /\ filter.max_stock.set => r.stock <= filter.max_stock.v
        /\ filter.created_from.set => r.created_at >= filter.created_from.v
        /\ filter.created_to.set => r.created_at <= filter.created_to.v
        /\ filter.updated_from.set => r.updated_at >= filter.updated_from.v
        /\ filter.updated_to.set => r.updated_at <= filter.updated_to.v)

validFields == {"name", "price", "stock", "created_at", "updated_at"}

ToUpper(direction) ==
    IF direction \in {"asc", "ASC"} THEN "ASC"
    ELSE IF direction \in {"desc", "DESC"} THEN "DESC"
    ELSE direction

\* the ORDER BY terms that applySorting adds
OrderBy(sortFields) ==
    IF Len(sortFields) = 0
    THEN <<[field |-> "created_at", direction |-> "DESC"]>>
    ELSE LET kept == SelectSeq(sortFields, LAMBDA f : f.field \in validFields)
         IN  [k \in 1..Len(kept) |->
                 [field |-> kept[k].field,
                  direction |-> IF ToUpper(kept[k].direction) \in {"ASC", "DESC"}
                                THEN ToUpper(kept[k].direction) ELSE "ASC"]]

RECURSIVE NameLess(_, _)
NameLess(a, b) ==
    IF b = <<>> THEN FALSE
    ELSE IF a = <<>> THEN TRUE
    ELSE IF Head(a) # Head(b) THEN Code(Head(a)) < Code(Head(b))
    ELSE NameLess(Tail(a), Tail(b))

FieldLess(a, b, field) ==
    IF field = "name" THEN NameLess(a.name, b.name) ELSE a[field] < b[field]

\* row a comes strictly before row b under the ORDER BY terms
RECURSIVE Before(_, _, _)
Before(a, b, terms) ==
    IF terms = <<>> THEN FALSE
    ELSE LET f == Head(terms).field
             lt == IF Head(terms).direction = "ASC"
                   THEN FieldLess(a, b, f) ELSE FieldLess(b, a, f)
             gt == IF Head(terms).direction = "ASC"
                   THEN FieldLess(b, a, f) ELSE FieldLess(a, b, f)
         IN  IF lt THEN TRUE ELSE IF gt THEN FALSE
             ELSE Before(a, b, Tail(terms))

\* rows that tie keep the order in which the store holds them
RECURSIVE Place(_, _, _)
Place(row, sorted, terms) ==
    IF sorted = <<>> THEN <<row>>
    ELSE IF Before(row, Head(sorted), terms) THEN <<row>> \o sorted
    ELSE <<Head(sorted)>> \o Place(row, Tail(sorted), terms)

RECURSIVE Ordered(_, _, _)
Ordered(rows, sorted, terms) ==
    IF rows = <<>> THEN sorted
    ELSE Ordered(Tail(rows), Place(Head(rows), sorted, terms), terms)

applySorting(rows, sortFields) == Ordered(rows, <<>>, OrderBy(sortFields))

\* OFFSET offset LIMIT limit
Window(rows, offset, limit) ==
    SubSeq(rows, offset + 1,
           IF offset + limit < Len(rows) THEN offset + limit ELSE Len(rows))

NoList == [products |-> <<>>, total |-> 0, page |-> 0, page_size |-> 0,
           total_pages |-> 0, has_next |-> FALSE, has_prev |-> FALSE]

\* the same query with the number of pages rounded down
RepoGetProductsWithFiltersFloor(db, userID, query) ==
    IF ~db.up THEN [err |-> "failed to count products", response |-> NoList]
    ELSE LET mine == SelectSeq(Rows(db), LAMBDA r : r.user_id = userID)
             matching == applyFilters(mine, query.filter)
             total == Len(matching)
             page == query.pagination.page
             pageSize == query.pagination.page_size
             totalPages == total \div pageSize
         IN  [err |-> "",
              response |->
                 [products |-> Window(applySorting(matching, query.sort),
                                      (page - 1) * pageSize, pageSize),
                  total |-> total, page |-> page, page_size |-> pageSize,
                  total_pages |-> totalPages,
                  has_next |-> page < totalPages, has_prev |-> page > 1]]

RepoGetProductsWithFilters(db, userID, query) ==
    IF ~db.up THEN [err |-> "failed to count products", response |-> NoList]
    ELSE LET mine == SelectSeq(Rows(db), LAMBDA r : r.user_id = userID)
             matching == applyFilters(mine, query.filter)
             total == Len(matching)
             page == query.pagination.page
             pageSize == query.pagination.page_size
             totalPages == (total + pageSize - 1) \div pageSize
         IN  [err |-> "",
              response |->
                 [products |-> Window(applySorting(matching, query.sort),
                                      (page - 1) * pageSize, pageSize),
                  total |-> total, page |-> page, page_size |-> pageSize,
                  total_pages |-> totalPages,
                  has_next |-> page < totalPages, has_prev |-> page > 1]]

NoCursorList == [products |-> <<>>, next_cursor |-> NilText,
                 prev_cursor |-> NilText,
                 has_next |-> FALSE, has_prev |-> FALSE]

RepoGetProductsWithCursor(db, userID, query) ==
    LET cursor == query.pagination.cursor
        pageSize == query.pagination.page_size
    IN  IF cursor.set /\ ParseUuid(cursor.v).err # ""
        THEN [err |-> "invalid cursor", response |-> NoCursorList]
        ELSE IF ~db.up
        THEN [err |-> "failed to fetch products", response |-> NoCursorList]
        ELSE LET mine == SelectSeq(Rows(db), LAMBDA r : r.user_id = userID)
                 sorted == applySorting(applyFilters(mine, query.filter), query.sort)
                 after == IF cursor.set
                          THEN SelectSeq(sorted,
                                   LAMBDA r : r.id > ParseUuid(cursor.v).id)
                          ELSE sorted
                 fetched == Window(after, 0, pageSize + 1)
                 hasNext == Len(fetched) > pageSize
                 page == IF hasNext THEN SubSeq(fetched, 1, pageSize) ELSE fetched
             IN  [err |-> "",
                  response |->
                     [products |-> page,
                      next_cursor |-> IF Len(page) > 0
                                      THEN Ptr(UuidString(page[Len(page)].id))
                                      ELSE NilText,
                      prev_cursor |-> IF Len(page) > 0 /\ cursor.set
                                      THEN Ptr(UuidString(page[1].id))
                                      ELSE NilText,
                      has_next |-> hasNext, has_prev |-> cursor.set]]

RECURSIVE Sum(_)
Sum(numbers) ==
    IF numbers = <<>> THEN 0 ELSE Head(numbers) + Sum(Tail(numbers))

NoStats == [total_products |-> 0, total_value |-> 0, avg_price |-> 0,
            low_stock |-> 0, out_of_stock |-> 0]

\* avg_price is the average in cents, the fraction of a cent dropped; the
\* aggregates do not depend on the order of the rows
RepoGetProductStats(db, userID) ==
    IF ~db.up THEN [err |-> "failed to get product stats", stats |-> NoStats]
    ELSE LET scan == Rows([db EXCEPT !.heap = [i \in ProductIds |-> i]])
             mine == SelectSeq(scan, LAMBDA r : r.user_id = userID)
             prices == [k \in 1..Len(mine) |-> mine[k].price]
             values == [k \in 1..Len(mine) |-> mine[k].price * mine[k].stock]
         IN  [err |-> "",
              stats |->
                 [total_products |-> Len(mine),
                  total_value |-> Sum(values),
                  avg_price |-> IF Len(mine) = 0 THEN 0
                                ELSE Sum(prices) \div Len(mine),
                  low_stock |-> Len(SelectSeq(mine, LAMBDA r : r.stock < LowStock)),
                  out_of_stock |-> Len(SelectSeq(mine, LAMBDA r : r.stock = 0))]]

\* GenericRepository.Create, Update (a full-row save) and Delete
RepoCreate(db, product) ==
    IF ~db.up THEN [err |-> "database unavailable", table |-> db.table]
    ELSE [err |-> "",
          table |-> [i \in DOMAIN db.table \cup {product.id} |->
                        IF i = product.id THEN product ELSE db.table[i]]]

RepoUpdate(db, product) ==
    IF ~db.up THEN [err |-> "database unavailable", table |-> db.table]
    ELSE [err |-> "",
          table |-> [i \in DOMAIN db.table \cup {product.id} |->
                        IF i = product.id THEN product ELSE db.table[i]]]

RepoDelete(db, id) ==
    IF ~db.up THEN [err |-> "database unavailable", table |-> db.table]
    ELSE [err |-> "", table |-> [i \in DOMAIN db.table \ {id} |-> db.table[i]]]

(***************************************************************************)
(* ProductService                                                          *)
(***************************************************************************)
\* a product key that does not name the user
ProductKeyById(userID, id) == <<"product", NoClaim, id>>

ProductKey(userID, id) == <<"product", userID, id>>
UserProductsKey(userID) == <<"user_products", userID, 0>>
UserStatsKey(userID) == <<"user_stats", userID, 0>>

\* json.Marshal of a query: the values of its fields in the order declared
MarshalFilter(filter) ==
    <<filter.name, filter.min_price, filter.max_price, filter.min_stock,
      filter.max_stock, filter.created_from, filter.created_to,
      filter.updated_from, filter.updated_to>>

MarshalSort(sortFields) ==
    [k \in 1..Len(sortFields) |-> <<sortFields[k].field, sortFields[k].direction>>]

\* json.Marshal refuses a float64 that is not finite: it returns an error
\* and no bytes
Finite(filter) ==
    /\ filter.min_price.set => filter.min_price.v # PosInf
    /\ filter.max_price.set => filter.max_price.v # PosInf

MarshalQuery(query) ==
    IF ~Finite(query.filter)
    THEN [err |-> "json: unsupported value: +Inf", bytes |-> <<>>]
    ELSE [err |-> "",
          bytes |-> <<MarshalFilter(query.filter), MarshalSort(query.sort),
                      <<query.pagination.page, query.pagination.page_size>>>>]

MarshalQueryCursor(query) ==
    IF ~Finite(query.filter)
    THEN [err |-> "json: unsupported value: +Inf", bytes |-> <<>>]
    ELSE [err |-> "",
          bytes |-> <<MarshalFilter(query.filter), MarshalSort(query.sort),
                      <<query.pagination.cursor, query.pagination.page_size>>>>]

\* the error of json.Marshal is dropped
generateQueryCacheKey(userID, query) ==
    <<"user_products_filtered", userID, MarshalQuery(query).bytes>>

generateCursorQueryCacheKey(userID, query) ==
    <<"user_products_cursor", userID, MarshalQueryCursor(query).bytes>>

\* a pattern deletion that matches the entries of every user
CacheDeletePatternAnyUser(c, prefix, userID) ==
    IF Failing(c)
    THEN [err |-> "failed to get keys", c |-> Down(c, "Keys", <<prefix>>)]
    ELSE LET c1 == Spend(c, "Keys", <<prefix>>)
             keys == {k \in DOMAIN c.store : k[1] = prefix}
         IN  IF keys = {} THEN [err |-> "", c |-> c1]
             ELSE IF Failing(c1)
             THEN [err |-> "unavailable", c |-> Down(c1, "Del", <<prefix>>)]
             ELSE [err |-> "",
                   c |-> [Spend(c1, "Del", <<prefix>>) EXCEPT !.store =
                             [k \in DOMAIN c.store \ keys |-> c.store[k]]]]

\* CacheService.DeletePattern(prefix ":" userID ":*")
CacheDeletePattern(c, prefix, userID) ==
    IF Failing(c)
    THEN [err |-> "failed to get keys", c |-> Down(c, "Keys", <<prefix>>)]
    ELSE LET c1 == Spend(c, "Keys", <<prefix>>)
             keys == {k \in DOMAIN c.store : k[1] = prefix /\ k[2] = userID}
         IN  IF keys = {} THEN [err |-> "", c |-> c1]
             ELSE IF Failing(c1)
             THEN [err |-> "unavailable", c |-> Down(c1, "Del", <<prefix>>)]
             ELSE [err |-> "",
                   c |-> [Spend(c1, "Del", <<prefix>>) EXCEPT !.store =
                             [k \in DOMAIN c.store \ keys |-> c.store[k]]]]

\* an invalidation that leaves the statistics of the user in the cache
invalidateUserCacheKeepStats(c, userID) ==
    LET c1 == CacheDelete(c, UserProductsKey(userID)).c
        c3 == CacheDeletePattern(c1, "user_products_filtered", userID).c
    IN  CacheDeletePattern(c3, "user_products_cursor", userID).c

\* every error of the four deletions is dropped
invalidateUserCache(c, userID) ==
    LET c1 == CacheDelete(c, UserProductsKey(userID)).c
        c2 == CacheDelete(c1, UserStatsKey(userID)).c
        c3 == CacheDeletePattern(c2, "user_products_filtered", userID).c
    IN  CacheDeletePattern(c3, "user_products_cursor", userID).c

Create(c, db, product, userID, id, t) ==
    LET row == [product EXCEPT !.id = id, !.user_id = userID,
                               !.created_at = t, !.updated_at = t]
        w == RepoCreate(db, row)
    IN  IF w.err # ""
        THEN [err |-> w.err, product |-> row, table |-> db.table, c |-> c]
        ELSE [err |-> "", product |-> row, table |-> w.table,
              c |-> invalidateUserCache(c, userID)]

\* a GetByID that answers a failed cache read with the failure
GetByIDCacheOnly(c, db, id, userID, t) ==
    LET g == CacheGet(c, ProductKey(userID, id))
        r == RepoGetByID(db, id)
    IN  IF g.err = "" THEN [err |-> "", product |-> g.val, c |-> g.c]
        ELSE IF g.err = "unavailable"
        THEN [err |-> g.err, product |-> NoProduct, c |-> g.c]
        ELSE IF r.err # "" THEN [err |-> r.err, product |-> NoProduct, c |-> g.c]
        ELSE IF r.product.user_id # userID
        THEN [err |-> "unauthorized access to product", product |-> NoProduct,
              c |-> g.c]
        ELSE [err |-> "", product |-> r.product,
              c |-> CacheSet(g.c, ProductKey(userID, id), r.product, t, ProductTTL).c]

GetByID(c, db, id, userID, t) ==
    LET g == CacheGet(c, ProductKey(userID, id))
        r == RepoGetByID(db, id)
    IN  IF g.err = "" THEN [err |-> "", product |-> g.val, c |-> g.c]
        ELSE IF r.err # "" THEN [err |-> r.err, product |-> NoProduct, c |-> g.c]
        ELSE IF r.product.user_id # userID
        THEN [err |-> "unauthorized access to product", product |-> NoProduct,
              c |-> g.c]
        ELSE [err |-> "", product |-> r.product,
              c |-> CacheSet(g.c, ProductKey(userID, id), r.product, t, ProductTTL).c]

GetAllByUser(c, db, userID, t) ==
    LET g == CacheGet(c, UserProductsKey(userID))
        r == GetByUserID(db, userID)
    IN  IF g.err = "" THEN [err |-> "", products |-> g.val, c |-> g.c]
        ELSE IF r.err # "" THEN [err |-> r.err, products |-> <<>>, c |-> g.c]
        ELSE [err |-> "", products |-> r.products,
              c |-> CacheSet(g.c, UserProductsKey(userID), r.products, t,
                             UserProductsTTL).c]

GetProductsWithFilters(c, db, userID, query, t) ==
    LET cacheKey == generateQueryCacheKey(userID, query)
        g == CacheGet(c, cacheKey)
        r == RepoGetProductsWithFilters(db, userID, query)
    IN  IF g.err = "" THEN [err |-> "", response |-> g.val, c |-> g.c]
        ELSE IF r.err # "" THEN [err |-> r.err, response |-> NoList, c |-> g.c]
        ELSE [err |-> "", response |-> r.response,
              c |-> CacheSet(g.c, cacheKey, r.response, t, QueryTTL).c]

GetProductsWithCursor(c, db, userID, query, t) ==
    LET cacheKey == generateCursorQueryCacheKey(userID, query)
        g == CacheGet(c, cacheKey)
        r == RepoGetProductsWithCursor(db, userID, query)
    IN  IF g.err = "" THEN [err |-> "", response |-> g.val, c |-> g.c]
        ELSE IF r.err # "" THEN [err |-> r.err, response |-> NoCursorList, c |-> g.c]
        ELSE [err |-> "", response |-> r.response,
              c |-> CacheSet(g.c, cacheKey, r.response, t, QueryTTL).c]

GetProductStats(c, db, userID, t) ==
    LET g == CacheGet(c, UserStatsKey(userID))
        r == RepoGetProductStats(db, userID)
    IN  IF g.err = "" THEN [err |-> "", stats |-> g.val, c |-> g.c]
        ELSE IF r.err # "" THEN [err |-> r.err, stats |-> NoStats, c |-> g.c]
        ELSE [err |-> "", stats |-> r.stats,
              c |-> CacheSet(g.c, UserStatsKey(userID), r.stats, t, StatsTTL).c]

\* product carries the fields of the request; the others have the zero value
Update(c, db, product, userID, t) ==
    LET r == RepoGetByID(db, product.id) IN
    IF r.err # "" THEN [err |-> r.err, table |-> db.table, c |-> c]
    ELSE IF r.product.user_id # userID
    THEN [err |-> "unauthorized access to product", table |-> db.table, c |-> c]
    ELSE LET existingProduct ==
                 [r.product EXCEPT
                     !.name = IF product.name # <<>> THEN product.name ELSE @,
                     !.description = IF product.description # ""
                                     THEN product.description ELSE @,
                     !.price = IF product.price > 0 THEN product.price ELSE @,
                     !.stock = IF product.stock >= 0 THEN product.stock ELSE @,
                     !.updated_at = t]
             w == RepoUpdate(db, existingProduct)
         IN  IF w.err # "" THEN [err |-> w.err, table |-> db.table, c |-> c]
             ELSE [err |-> "", table |-> w.table,
                   c |-> invalidateUserCache(c, userID)]

Delete(c, db, id, userID) ==
    LET r == RepoGetByID(db, id) IN
    IF r.err # "" THEN [err |-> r.err, table |-> db.table, c |-> c]
    ELSE IF r.product.user_id # userID
    THEN [err |-> "unauthorized access to product", table |-> db.table, c |-> c]
    ELSE LET w == RepoDelete(db, id)
         IN  IF w.err # "" THEN [err |-> w.err, table |-> db.table, c |-> c]
             ELSE [err |-> "", table |-> w.table,
                   c |-> invalidateUserCache(c, userID)]

\* the kinds of entries the cache holds for a user
Held(st, userID) == {k[1] : k \in {x \in DOMAIN st : x[2] = userID}}

\* the last product request: the operation, its arguments, the relational
\* store's own answer to it, the result returned, the cache operations
\* that failed and, for a mutation, the kinds of entries the cache held for
\* the user when the request arrived
NoReply == [op |-> "", user |-> NoClaim, id |-> NoProductId, query |-> <<>>,
            before |-> <<>>, err |-> "", status |-> 0, value |-> <<>>,
            direct |-> <<>>, cached |-> FALSE, lost |-> <<>>, held |-> {}]

(***************************************************************************)
(* Initial state: empty relational store, empty cache store                *)
(***************************************************************************)
Init ==
    /\ now = 0
    /\ extras = 0
    /\ users = <<>>
    /\ store = <<>>
    /\ nextSession = 1
    /\ issued = {}
    /\ blacklisted = {}
    /\ loggedOut = {}
    /\ blacklistedAll = {}
    /\ loggedOutAll = {}
    /\ resp = NoResp
    /\ calls = <<>>
    /\ written = <<>>
    /\ products = <<>>
    /\ minted = {}
    /\ minute = 0
    /\ served = 0
    /\ reply = NoReply

(***************************************************************************)
(* Public routes                                                           *)
(***************************************************************************)
\* Steps beyond the plain flow of one user with one login are counted: a
\* further registration, a further login, a token refresh, a request met by
\* a cache-store outage, a clock step, a key expiry.
Extra(counted) ==
    /\ extras + (IF counted THEN 1 ELSE 0) <= MaxExtras
    /\ extras' = extras + (IF counted THEN 1 ELSE 0)

\* a request is met by an outage when one of its cache operations failed;
\* the faults chosen for a request are all met by it
Accounted(faults, c, more) ==
    LET n == (IF c.hit THEN 1 ELSE 0) + (IF more THEN 1 ELSE 0) IN
    /\ faults.from # 0 => c.n >= faults.from
    /\ \A i \in faults.at : c.n >= i
    /\ extras + n <= MaxExtras
    /\ extras' = extras + n

\* POST /auth/register
Register(email, password) ==
    /\ resp = NoResp
    /\ IF email \in DOMAIN users
       THEN /\ resp' = [NoResp EXCEPT !.handler = "register", !.status = 400,
                                      !.message = "user already exists"]
            /\ UNCHANGED <<users, extras>>
       ELSE /\ Extra(users # <<>>)
            /\ users' = [e \in DOMAIN users \cup {email} |->
                            IF e = email
                            THEN [id |-> UserIdOf(email), password |-> password]
                            ELSE users[e]]
            /\ resp' = [NoResp EXCEPT !.handler = "register", !.status = 201,
                                      !.user = UserIdOf(email)]
    /\ UNCHANGED <<now, store, nextSession, issued,
                   blacklisted, loggedOut, blacklistedAll, loggedOutAll>>
    /\ UNCHANGED beyondRequests

\* POST /auth/login
Login(email, password, faults) ==
    /\ resp = NoResp
    /\ nextSession <= MaxSessions
    /\ IF email \notin DOMAIN users \/ users[email].password # password
       THEN /\ faults = NoOutage
            /\ resp' = [NoResp EXCEPT !.handler = "login", !.status = 401,
                                      !.message = "invalid credentials"]
            /\ UNCHANGED <<store, nextSession, issued, extras>>
       ELSE \E c \in {CreateSession(Handle(store, faults), nextSession,
                                     users[email].id, email, now,
                                     SessionDuration)} :
            LET user == users[email]
                accessToken == generateAccessToken(user.id, nextSession, now)
                refreshToken == generateRefreshToken(user.id, nextSession, now)
            IN  /\ Accounted(faults, c.c, nextSession > 1 /\ SessionKey(nextSession) \in DOMAIN c.c.store)
                /\ store' = c.c.store
                /\ nextSession' = IF SessionKey(nextSession) \in DOMAIN c.c.store
                                  THEN nextSession + 1 ELSE nextSession
                /\ IF c.err # ""
                   THEN /\ resp' = [NoResp EXCEPT !.handler = "login",
                                       !.hit = c.c.hit,
                                       !.lost = c.c.failed,
                                       !.status = 401,
                                       !.message = "failed to create session"]
                        /\ UNCHANGED issued
                   ELSE /\ issued' = issued \cup {accessToken, refreshToken}
                        /\ resp' = [NoResp EXCEPT !.handler = "login",
                                       !.status = 200,
                                       !.session = c.session.id,
                                       !.user = user.id,
                                       !.tokens = {accessToken, refreshToken}]
    /\ UNCHANGED <<now, users, blacklisted, loggedOut,
                   blacklistedAll, loggedOutAll>>
    /\ UNCHANGED beyondRequests

(***************************************************************************)
(* Protected routes: AuthMiddleware, then the handler                      *)
(***************************************************************************)
\* the middleware aborted the request
Abort(route, header, faults, a) ==
    /\ Accounted(faults, a.c, FALSE)
    /\ store' = a.c.store
    /\ resp' = Aborted(route, header, a)

\* POST /auth/logout
Logout(header, faults) ==
    /\ resp = NoResp
    /\ \E a \in {AuthMiddleware(header, Handle(store, faults), now)} :
       IF ~a.next
       THEN /\ Abort("logout", header, faults, a)
            /\ UNCHANGED <<blacklisted, loggedOut>>
       ELSE \E b \in {BlacklistToken(a.c, a.ctx.token, now)} :
            \E d \in {UserLogout(b.c, a.ctx.session_id)} :
            LET token == a.ctx.token
            IN  IF b.err # ""
                THEN /\ Accounted(faults, b.c, FALSE)
                     /\ store' = b.c.store
                     /\ resp' = Handled("logout", header, a, b.c, 500, "Failed to blacklist token")
                     /\ UNCHANGED <<blacklisted, loggedOut>>
                ELSE /\ Accounted(faults, d.c, FALSE)
                     /\ store' = d.c.store
                     /\ blacklisted' = blacklisted \cup {[token |-> token, at |-> now]}
                     /\ IF d.err # ""
                        THEN /\ resp' = Handled("logout", header, a, d.c, 500, d.err)
                             /\ UNCHANGED loggedOut
                        ELSE /\ resp' = Handled("logout", header, a, d.c, 200, "Logged out successfully")
                             /\ loggedOut' = loggedOut \cup {token}
    /\ UNCHANGED <<now, users, nextSession, issued,
                   blacklistedAll, loggedOutAll>>
    /\ UNCHANGED beyondRequests

\* POST /auth/logout-all
LogoutAll(header, faults) ==
    /\ resp = NoResp
    /\ \E a \in {AuthMiddleware(header, Handle(store, faults), now)} :
       IF ~a.next
       THEN /\ Abort("logout-all", header, faults, a)
            /\ UNCHANGED <<blacklistedAll, loggedOutAll>>
       ELSE \E r \in {UserLogoutAll(a.c, a.ctx.user_id, now)} :
            LET userID == a.ctx.user_id
                held == {[user |-> userID, session |-> id, at |-> now] :
                            id \in HeldSessions(a.c.store, userID, now)}
            IN  /\ Accounted(faults, r.c, FALSE)
                /\ store' = r.c.store
                /\ blacklistedAll' = IF r.blacklisted
                                     THEN blacklistedAll \cup held
                                     ELSE blacklistedAll
                /\ loggedOutAll' = IF r.err = ""
                                   THEN loggedOutAll \cup held
                                   ELSE loggedOutAll
                /\ resp' = IF r.err = ""
                           THEN Handled("logout-all", header, a, r.c, 200,
                                        "Logged out from all devices successfully")
                           ELSE Handled("logout-all", header, a, r.c, 500, r.err)
    /\ UNCHANGED <<now, users, nextSession, issued,
                   blacklisted, loggedOut>>
    /\ UNCHANGED beyondRequests

\* GET /auth/sessions
GetUserSessionsRoute(header, faults) ==
    /\ resp = NoResp
    /\ \E a \in {AuthMiddleware(header, Handle(store, faults), now)} :
       IF ~a.next
       THEN Abort("sessions", header, faults, a)
       ELSE \E n \in {GetActiveSessionsCount(a.c, a.ctx.user_id, now)} :
            /\ Accounted(faults, n.c, FALSE)
            /\ store' = n.c.store
            /\ resp' = IF n.err = ""
                       THEN Handled("sessions", header, a, n.c, 200, "")
                       ELSE Handled("sessions", header, a, n.c, 500,
                                    "Failed to retrieve user sessions")
    /\ UNCHANGED <<now, users, nextSession, issued,
                   blacklisted, loggedOut, blacklistedAll, loggedOutAll>>
    /\ UNCHANGED beyondRequests

\* a RefreshToken that does not ask whether the session is valid
UserRefreshTokenUnchecked(c, refreshToken, t) ==
    IF ~ParseToken(refreshToken, t)
    THEN [err |-> "invalid refresh token", c |-> c, tokens |-> {}]
    ELSE IF refreshToken.user_id = NoClaim
    THEN [err |-> "invalid user ID in token", c |-> c, tokens |-> {}]
    ELSE IF refreshToken.session_id = NoSessionId
    THEN [err |-> "invalid session ID in token", c |-> c, tokens |-> {}]
    ELSE IF refreshToken.user_id \notin UserIds
    THEN [err |-> "invalid user ID format", c |-> c, tokens |-> {}]
    ELSE IF refreshToken.user_id \notin {users[e].id : e \in DOMAIN users}
    THEN [err |-> "user not found", c |-> c, tokens |-> {}]
    ELSE LET r == RefreshSession(c, refreshToken.session_id, t, SessionDuration) IN
    IF r.err # ""
    THEN [err |-> "failed to refresh session", c |-> r.c, tokens |-> {}]
    ELSE [err |-> "", c |-> r.c,
          tokens |-> {generateAccessToken(refreshToken.user_id,
                                          refreshToken.session_id, t),
                      generateRefreshToken(refreshToken.user_id,
                                           refreshToken.session_id, t)}]

\* UserService.RefreshToken
UserRefreshToken(c, refreshToken, t) ==
    IF ~ParseToken(refreshToken, t)
    THEN [err |-> "invalid refresh token", c |-> c, tokens |-> {}]
    ELSE IF refreshToken.user_id = NoClaim
    THEN [err |-> "invalid user ID in token", c |-> c, tokens |-> {}]
    ELSE IF refreshToken.session_id = NoSessionId
    THEN [err |-> "invalid session ID in token", c |-> c, tokens |-> {}]
    ELSE LET v == IsSessionValid(c, refreshToken.session_id, t) IN
    IF v.err # "" \/ ~v.valid
    THEN [err |-> "session expired or invalid", c |-> v.c, tokens |-> {}]
    ELSE IF refreshToken.user_id \notin UserIds
    THEN [err |-> "invalid user ID format", c |-> v.c, tokens |-> {}]
    ELSE IF refreshToken.user_id \notin {users[e].id : e \in DOMAIN users}
    THEN [err |-> "user not found", c |-> v.c, tokens |-> {}]
    ELSE LET r == RefreshSession(v.c, refreshToken.session_id, t, SessionDuration) IN
    IF r.err # ""
    THEN [err |-> "failed to refresh session", c |-> r.c, tokens |-> {}]
    ELSE [err |-> "", c |-> r.c,
          tokens |-> {generateAccessToken(refreshToken.user_id,
                                          refreshToken.session_id, t),
                      generateRefreshToken(refreshToken.user_id,
                                           refreshToken.session_id, t)}]

\* POST /auth/refresh
RefreshToken(header, refreshToken, faults) ==
    /\ resp = NoResp
    /\ \E a \in {AuthMiddleware(header, Handle(store, faults), now)} :
       IF ~a.next
       THEN /\ Abort("refresh", header, faults, a)
            /\ UNCHANGED issued
       ELSE \E r \in {UserRefreshToken(a.c, refreshToken, now)} :
            /\ Accounted(faults, r.c, r.err = "")
            /\ store' = r.c.store
            /\ issued' = issued \cup r.tokens
            /\ resp' = [Handled("refresh", header, a, r.c, IF r.err = "" THEN 200 ELSE 401, r.err)
                          EXCEPT !.tokens = r.tokens]
    /\ UNCHANGED <<now, users, nextSession, blacklisted, loggedOut,
                   blacklistedAll, loggedOutAll>>
    /\ UNCHANGED beyondRequests

(***************************************************************************)
(* Environment: the clock and the cache store's key expiry                 *)
(***************************************************************************)
\* a key outlives its TTL by at most StoreLag
Tick(t) ==
    /\ resp = NoResp
    /\ t > now
    /\ Extra(TRUE)
    /\ now' = t
    /\ store' = [k \in {x \in DOMAIN store : t <= store[x].exp + StoreLag}
                    |-> store[k]]
    /\ resp' = NoResp
    /\ UNCHANGED <<users, nextSession, issued, blacklisted,
                   loggedOut, blacklistedAll, loggedOutAll>>
    /\ UNCHANGED beyondRequests

\* the keys whose TTL has run out disappear
RedisExpire ==
    /\ resp = NoResp
    /\ \E k \in DOMAIN store : store[k].exp <= now
    /\ Extra(TRUE)
    /\ store' = [k \in {x \in DOMAIN store : now < store[x].exp} |-> store[k]]
    /\ resp' = NoResp
    /\ UNCHANGED <<now, users, nextSession, issued,
                   blacklisted, loggedOut, blacklistedAll, loggedOutAll>>
    /\ UNCHANGED beyondRequests

\* the client receives the response; requests are sent one after another
Deliver ==
    /\ resp # NoResp
    /\ resp' = NoResp
    /\ UNCHANGED <<now, extras, users, store, nextSession, issued,
                   blacklisted, loggedOut, blacklistedAll, loggedOutAll>>
    /\ UNCHANGED beyondRequests

\* the outages a request sending `header` can meet: the middleware reaches
\* the cache store only for a bearer token that parses
Outages(header) ==
    IF extras < MaxExtras /\ header.scheme = "Bearer" /\ ParseToken(header.token, now)
    THEN Faults ELSE {NoOutage}

\* the refresh tokens sent in the body; the body is not read when the
\* middleware rejects the header
Bodies(header) ==
    IF header.scheme = "Bearer" /\ ParseToken(header.token, now)
    THEN Presentable ELSE {NoToken}

LoginOutages == IF extras < MaxExtras THEN Faults ELSE {NoOutage}

Next ==
    \/ \E e \in Emails, p \in Passwords : Register(e, p)
    \/ \E e \in Emails, p \in Passwords \cup {WrongPassword}, n \in LoginOutages :
          Login(e, p, n)
    \/ \E h \in Headers : \E n \in Outages(h) : Logout(h, n)
    \/ \E h \in Headers : \E n \in Outages(h) : LogoutAll(h, n)
    \/ \E h \in Headers : \E n \in Outages(h) : GetUserSessionsRoute(h, n)
    \/ \E h \in Headers : \E rt \in Bodies(h), n \in Outages(h) :
          RefreshToken(h, rt, n)
    \/ \E t \in Instants : Tick(t)
    \/ RedisExpire
    \/ Deliver

Spec == Init /\ [][Next]_vars

(***************************************************************************)
(* Concurrent CreateSession calls.  Gin serves every request on its own    *)
(* goroutine, so the cache operations of two calls interleave; each cache  *)
(* operation is atomic at the store.  A call is followed through its two   *)
(* writes.                                                                 *)
(***************************************************************************)
Callers == 1..MaxCalls

Idle == [pc |-> "idle", user |-> NoClaim, session |-> NoSessionId, err |-> ""]

RaceInit ==
    /\ now = 0
    /\ extras = 0
    /\ users = [e \in Emails |-> [id |-> UserIdOf(e), password |-> "Aa1!aaaa"]]
    /\ store = <<>>
    /\ nextSession = 1
    /\ issued = {}
    /\ blacklisted = {}
    /\ loggedOut = {}
    /\ blacklistedAll = {}
    /\ loggedOutAll = {}
    /\ resp = NoResp
    /\ calls = [p \in Callers |-> Idle]
    /\ written = <<>>
    /\ products = <<>>
    /\ minted = {}
    /\ minute = 0
    /\ served = 0
    /\ reply = NoReply

\* CreateSession entered: sessionID := uuid.New().String()
CallCreateSession(p, userID) ==
    /\ calls[p].pc = "idle"
    /\ nextSession <= MaxSessions
    /\ calls' = [calls EXCEPT ![p] = [pc |-> "session", user |-> userID,
                                      session |-> nextSession, err |-> ""]]
    /\ nextSession' = nextSession + 1
    /\ UNCHANGED <<now, extras, users, store, issued, blacklisted, loggedOut,
                   blacklistedAll, loggedOutAll, resp, written, productVars>>

\* cacheService.Set(ctx, "session:" + sessionID, session, duration)
StoreSession(p) ==
    /\ calls[p].pc = "session"
    /\ \E w \in {CacheSet(Reachable(store), SessionKey(calls[p].session),
                           [id |-> calls[p].session, user_id |-> calls[p].user,
                            email |-> EmailOf(calls[p].user), created_at |-> now,
                            expires_at |-> now + SessionDuration,
                            is_active |-> TRUE],
                           now, SessionDuration)} :
          /\ store' = w.c.store
          /\ calls' = [calls EXCEPT ![p].pc = IF w.err = "" THEN "index" ELSE "done",
                                    ![p].err = IF w.err = "" THEN "" ELSE "failed to store session"]
    /\ UNCHANGED <<now, extras, users, nextSession, issued, blacklisted,
                   loggedOut, blacklistedAll, loggedOutAll, resp, written,
                   productVars>>

\* cacheService.Set(ctx, "user_sessions:" + userID, sessionID, duration)
StoreIndex(p) ==
    /\ calls[p].pc = "index"
    /\ \E w \in {CacheSet(Reachable(store), UserSessionsKey(calls[p].user),
                           calls[p].session, now, SessionDuration)} :
          /\ store' = w.c.store
          /\ calls' = [calls EXCEPT ![p].pc = "done",
                                    ![p].err = IF w.err = "" THEN ""
                                               ELSE "failed to store user session index"]
    /\ written' = Append(written, <<calls[p].user, calls[p].session>>)
    /\ UNCHANGED <<now, extras, users, nextSession, issued, blacklisted,
                   loggedOut, blacklistedAll, loggedOutAll, resp, productVars>>

RaceNext ==
    \/ \E p \in Callers, u \in UserIds : CallCreateSession(p, u)
    \/ \E p \in Callers : StoreSession(p)
    \/ \E p \in Callers : StoreIndex(p)

RaceSpec == RaceInit /\ [][RaceNext]_vars

(***************************************************************************)
(* Concurrent Logout and RefreshToken requests.  A request passes the      *)
(* gatekeeper when it arrives; each cache operation of its handler is one  *)
(* step.                                                                   *)
(***************************************************************************)
\* what the steps of a call leave alone besides the cache store, the calls
\* and the tokens issued
beyondCalls == <<now, extras, users, nextSession, blacklisted, loggedOut,
                 blacklistedAll, loggedOutAll, resp, written, productVars>>

\* a call of a handler: its position, its arguments, the session record it
\* has read and the tokens it has minted
Call(op, pc, userID, sessionID) ==
    [op |-> op, pc |-> pc, user |-> userID, session |-> sessionID, err |-> "",
     found |-> NoSession, tokens |-> {}, keys |-> {}]

\* the owner of each session of the initial state
Owner(sessionID) == IF sessionID = 1 THEN UserIdOf("a@x.com")
                    ELSE UserIdOf("b@x.com")

LoggedIn == 1..2

\* two users have logged in: each holds a session, an access token and a
\* refresh token
LogoutRaceInit ==
    /\ now = 0
    /\ extras = 0
    /\ users = [e \in Emails |-> [id |-> UserIdOf(e), password |-> "Aa1!aaaa"]]
    /\ \E r1 \in {CreateSession(Reachable(<<>>), 1, Owner(1), EmailOf(Owner(1)),
                                  0, SessionDuration)} :
       \E r2 \in {CreateSession(Reachable(r1.c.store), 2, Owner(2),
                                  EmailOf(Owner(2)), 0, SessionDuration)} :
          store = r2.c.store
    /\ nextSession = 3
    /\ issued = UNION {{generateAccessToken(Owner(s), s, 0),
                        generateRefreshToken(Owner(s), s, 0)} : s \in LoggedIn}
    /\ blacklisted = {}
    /\ loggedOut = {}
    /\ blacklistedAll = {}
    /\ loggedOutAll = {}
    /\ resp = NoResp
    /\ calls = [p \in Callers |-> Idle]
    /\ written = <<>>
    /\ products = <<>>
    /\ minted = {}
    /\ minute = 0
    /\ served = 0
    /\ reply = NoReply

\* AuthMiddleware for the access token of the session
Admitted(sessionID) ==
    AuthMiddleware(Bearer(generateAccessToken(Owner(sessionID), sessionID, 0)),
                   Reachable(store), now).failed = 0

\* POST /auth/logout arrives and passes the gatekeeper
CallLogout(p, sessionID) ==
    /\ calls[p].pc = "idle"
    /\ Admitted(sessionID)
    /\ calls' = [calls EXCEPT ![p] = Call("Logout", "blacklist",
                                           Owner(sessionID), sessionID)]
    /\ UNCHANGED <<store, issued, beyondCalls>>

\* h.userService.BlacklistToken(ctx, token)
LogoutBlacklist(p) ==
    /\ calls[p].pc = "blacklist"
    /\ \E w \in {BlacklistToken(Reachable(store),
                       generateAccessToken(calls[p].user, calls[p].session, 0),
                       now)} :
          /\ store' = w.c.store
          /\ calls' = [calls EXCEPT ![p].pc = "delete_get"]
    /\ UNCHANGED <<issued, beyondCalls>>

\* DeleteSession: cacheService.Get(ctx, key, &session)
DeleteGet(p) ==
    /\ calls[p].pc = "delete_get"
    /\ \E g \in {CacheGet(Reachable(store), SessionKey(calls[p].session))} :
          calls' = [calls EXCEPT
                       ![p].pc = IF g.err = "" THEN "delete_index"
                                 ELSE "delete_record",
                       ![p].found = IF g.err = "" THEN g.val ELSE NoSession]
    /\ UNCHANGED <<store, issued, beyondCalls>>

\* DeleteSession: cacheService.Delete(ctx, userSessionsKey)
DeleteIndex(p) ==
    /\ calls[p].pc = "delete_index"
    /\ store' = CacheDelete(Reachable(store),
                            UserSessionsKey(calls[p].found.user_id)).c.store
    /\ calls' = [calls EXCEPT ![p].pc = "delete_record"]
    /\ UNCHANGED <<issued, beyondCalls>>

\* DeleteSession: return cacheService.Delete(ctx, key)
DeleteRecord(p) ==
    /\ calls[p].pc = "delete_record"
    /\ \E d \in {CacheDelete(Reachable(store), SessionKey(calls[p].session))} :
          /\ store' = d.c.store
          /\ calls' = [calls EXCEPT ![p].pc = "done", ![p].err = d.err]
    /\ UNCHANGED <<issued, beyondCalls>>

\* POST /auth/refresh arrives with the refresh token of the session and
\* passes the gatekeeper
CallRefreshToken(p, sessionID) ==
    /\ calls[p].pc = "idle"
    /\ Admitted(sessionID)
    /\ calls' = [calls EXCEPT ![p] = Call("RefreshToken", "valid",
                                           Owner(sessionID), sessionID)]
    /\ UNCHANGED <<store, issued, beyondCalls>>

\* RefreshToken: IsSessionValid, then the tokens are generated
RefreshValid(p) ==
    /\ calls[p].pc = "valid"
    /\ \E v \in {IsSessionValid(Reachable(store), calls[p].session, now)} :
          /\ store' = v.c.store
          /\ calls' = IF v.err # "" \/ ~v.valid
                       THEN [calls EXCEPT ![p].pc = "done",
                                          ![p].err = "session expired or invalid"]
                       ELSE [calls EXCEPT ![p].pc = "refresh_get",
                                ![p].tokens =
                                   {generateAccessToken(calls[p].user,
                                                        calls[p].session, now),
                                    generateRefreshToken(calls[p].user,
                                                         calls[p].session, now)}]
    /\ UNCHANGED <<issued, beyondCalls>>

\* RefreshSession: GetSession
RefreshGet(p) ==
    /\ calls[p].pc = "refresh_get"
    /\ \E g \in {GetSession(Reachable(store), calls[p].session, now)} :
          /\ store' = g.c.store
          /\ calls' = IF g.err # ""
                       THEN [calls EXCEPT ![p].pc = "done",
                                          ![p].err = "failed to refresh session"]
                       ELSE [calls EXCEPT ![p].pc = "refresh_set",
                                          ![p].found = g.session]
    /\ UNCHANGED <<issued, beyondCalls>>

\* RefreshSession: cacheService.Set(ctx, key, session, duration); the
\* response carries the new tokens
RefreshSet(p) ==
    /\ calls[p].pc = "refresh_set"
    /\ \E w \in {CacheSet(Reachable(store), SessionKey(calls[p].session),
                           [calls[p].found EXCEPT
                               !.expires_at = now + SessionDuration],
                           now, SessionDuration)} :
          /\ store' = w.c.store
          /\ calls' = [calls EXCEPT ![p].pc = "done", ![p].err = w.err]
          /\ issued' = IF w.err = "" THEN issued \cup calls[p].tokens
                        ELSE issued
    /\ UNCHANGED beyondCalls

LogoutRaceNext ==
    \/ \E p \in Callers, s \in LoggedIn : CallLogout(p, s)
    \/ \E p \in Callers : LogoutBlacklist(p)
    \/ \E p \in Callers : DeleteGet(p)
    \/ \E p \in Callers : DeleteIndex(p)
    \/ \E p \in Callers : DeleteRecord(p)
    \/ \E p \in Callers, s \in LoggedIn : CallRefreshToken(p, s)
    \/ \E p \in Callers : RefreshValid(p)
    \/ \E p \in Callers : RefreshGet(p)
    \/ \E p \in Callers : RefreshSet(p)

LogoutRaceSpec == LogoutRaceInit /\ [][LogoutRaceNext]_vars

(***************************************************************************)
(* Concurrent CreateSession, DeleteSession and DeleteUserSessions calls,   *)
(* each followed through its cache operations.                             *)
(***************************************************************************)
\* DeleteSession(ctx, sessionID) entered for a session id that a CreateSession
\* has returned
CallDeleteSession(p, sessionID) ==
    /\ calls[p].pc = "idle"
    /\ \E i \in DOMAIN written : written[i][2] = sessionID
    /\ calls' = [calls EXCEPT ![p] = Call("DeleteSession", "delete_get",
                                           NoClaim, sessionID)]
    /\ UNCHANGED <<store, issued, beyondCalls>>

\* DeleteUserSessions(ctx, userID) entered
CallDeleteUserSessions(p, userID) ==
    /\ calls[p].pc = "idle"
    /\ calls' = [calls EXCEPT ![p] = Call("DeleteUserSessions", "keys",
                                           userID, NoSessionId)]
    /\ UNCHANGED <<store, issued, beyondCalls>>

\* keys, err := Client.Keys(ctx, "session:*")
SweepKeys(p) ==
    /\ calls[p].pc = "keys"
    /\ \E ks \in {CacheKeys(Reachable(store), "session")} :
          calls' = IF ks.err # ""
                   THEN [calls EXCEPT ![p].pc = "done",
                                      ![p].err = "failed to get session keys"]
                   ELSE [calls EXCEPT ![p].pc = "sweep", ![p].keys = ks.keys]
    /\ UNCHANGED <<store, issued, beyondCalls>>

\* for _, key := range keys: cacheService.Get(ctx, key, &session)
SweepGet(p) ==
    /\ calls[p].pc = "sweep"
    /\ \E key \in calls[p].keys :
       \E g \in {CacheGet(Reachable(store), key)} :
          calls' = [calls EXCEPT
                       ![p].keys = @ \ {key},
                       ![p].session = key[2],
                       ![p].pc = IF g.err = "" /\ g.val.user_id = calls[p].user
                                 THEN "sweep_delete" ELSE "sweep"]
    /\ UNCHANGED <<store, issued, beyondCalls>>

\* if session.UserID == userID: cacheService.Delete(ctx, key)
SweepDelete(p) ==
    /\ calls[p].pc = "sweep_delete"
    /\ store' = CacheDelete(Reachable(store), SessionKey(calls[p].session)).c.store
    /\ calls' = [calls EXCEPT ![p].pc = "sweep"]
    /\ UNCHANGED <<issued, beyondCalls>>

\* after the loop: return cacheService.Delete(ctx, userSessionsKey)
SweepIndex(p) ==
    /\ calls[p].pc = "sweep"
    /\ calls[p].keys = {}
    /\ \E d \in {CacheDelete(Reachable(store), UserSessionsKey(calls[p].user))} :
          /\ store' = d.c.store
          /\ calls' = [calls EXCEPT ![p].pc = "done", ![p].err = d.err]
    /\ UNCHANGED <<issued, beyondCalls>>

IndexRaceNext ==
    \/ \E p \in Callers, u \in UserIds : CallCreateSession(p, u)
    \/ \E p \in Callers : StoreSession(p)
    \/ \E p \in Callers : StoreIndex(p)
    \/ \E p \in Callers, s \in 1..MaxSessions : CallDeleteSession(p, s)
    \/ \E p \in Callers : DeleteGet(p)
    \/ \E p \in Callers : DeleteIndex(p)
    \/ \E p \in Callers : DeleteRecord(p)
    \/ \E p \in Callers, u \in UserIds : CallDeleteUserSessions(p, u)
    \/ \E p \in Callers : SweepKeys(p)
    \/ \E p \in Callers : SweepGet(p)
    \/ \E p \in Callers : SweepDelete(p)
    \/ \E p \in Callers : SweepIndex(p)

IndexRaceSpec == RaceInit /\ [][IndexRaceNext]_vars

(***************************************************************************)
(* Product requests.  The gatekeeper has put the authenticated user's id   *)
(* in the request context; the handler calls the ProductService.  During a *)
(* request any cache operation can fail and the relational store can be    *)
(* unreachable.                                                            *)
(***************************************************************************)
ProductNames == {<<"a", "b">>}
Prices == {2999}
Stocks == {5}

NoFilter == [name |-> NilText, min_price |-> Nil, max_price |-> Nil,
             min_stock |-> Nil, max_stock |-> Nil,
             created_from |-> Nil, created_to |-> Nil,
             updated_from |-> Nil, updated_to |-> Nil]

\* GET /products/filtered as sent without parameters
Queries ==
    {[filter |-> NoFilter, sort |-> <<>>,
      pagination |-> [page |-> 1, page_size |-> DefaultPageSize]]}

\* GET /products/cursor?page_size=1
CursorQueries ==
    {[filter |-> NoFilter, sort |-> <<>>,
      pagination |-> [cursor |-> NilText, page_size |-> 1]]}

\* the bodies of PUT /products/:id: the price alone, the stock alone and the
\* name alone; a field that is absent from the body is a nil pointer
NoUpdate == [name |-> NilText, description |-> NilText, price |-> Nil,
             stock |-> Nil]

UpdateBodies ==
    {[NoUpdate EXCEPT !.price = Ptr(5000)], [NoUpdate EXCEPT !.stock = Ptr(7)],
     [NoUpdate EXCEPT !.name = Ptr(<<"c", "a">>)]}

\* product := &domain.Product{ID: id}, then the fields the body holds; a
\* field that is absent from the body keeps the zero value
Patch(id, req) ==
    [NoProduct EXCEPT
        !.id = id,
        !.name = IF req.name.set THEN req.name.v ELSE @,
        !.price = IF req.price.set THEN req.price.v ELSE @,
        !.stock = IF req.stock.set THEN req.stock.v ELSE @]

Changes == {Patch(NoProductId, req) : req \in UpdateBodies}

ProductInstants == {QueryTTL, StatsTTL, UserProductsTTL, ProductTTL}

ProductInit ==
    /\ now = 0
    /\ extras = 0
    /\ users = [e \in Emails |-> [id |-> UserIdOf(e), password |-> "Aa1!aaaa"]]
    /\ store = <<>>
    /\ nextSession = 1
    /\ issued = {}
    /\ blacklisted = {}
    /\ loggedOut = {}
    /\ blacklistedAll = {}
    /\ loggedOutAll = {}
    /\ resp = NoResp
    /\ calls = <<>>
    /\ written = <<>>
    /\ products = <<>>
    /\ minted = {}
    /\ minute = 0
    /\ served = 0
    /\ reply = NoReply

\* what the product requests leave alone
beyondProducts == <<now, users, nextSession, issued, blacklisted, loggedOut,
                    blacklistedAll, loggedOutAll, resp, raceVars>>

\* the requests are counted, and so are those met by a failure of the cache
\* store or of the relational store; the faults chosen for a request are all
\* met by it
Troubled(faults, c, up) ==
    LET n == IF c.hit \/ ~up THEN 1 ELSE 0 IN
    /\ faults.from # 0 => c.n >= faults.from
    /\ \A i \in faults.at : c.n >= i
    /\ extras + n <= MaxTroubles
    /\ extras' = extras + n
    /\ served < MaxRequests
    /\ served' = served + 1

\* POST /products
CreateRequest(userID, name, price, stock, id, faults, up) ==
    /\ served < MaxRequests
    /\ id \notin minted
    /\ \E r \in {Create(Handle(store, faults), Database(products, <<>>, up),
                        [NoProduct EXCEPT !.name = name, !.price = price,
                                          !.stock = stock],
                        userID, id, minute)} :
          /\ Troubled(faults, r.c, up)
          /\ store' = r.c.store
          /\ products' = r.table
          /\ minted' = minted \cup {id}
          /\ reply' = [NoReply EXCEPT !.op = "Create", !.user = userID,
                          !.id = id, !.before = products, !.err = r.err,
                          !.status = IF r.err = "" THEN 201 ELSE 400,
                          !.value = r.product, !.lost = r.c.failed,
                          !.held = Held(store, userID)]
    /\ UNCHANGED <<minute, beyondProducts>>

\* GET /products/:id
GetByIDRequest(userID, id, faults, up) ==
    /\ served < MaxRequests
    /\ \E r \in {GetByID(Handle(store, faults), Database(products, <<>>, up),
                         id, userID, minute)} :
          /\ Troubled(faults, r.c, up)
          /\ store' = r.c.store
          /\ reply' = [NoReply EXCEPT !.op = "GetByID", !.user = userID,
                          !.id = id, !.before = products, !.err = r.err,
                          !.status = IF r.err = "" THEN 200 ELSE 404,
                          !.value = r.product,
                          !.direct = RepoGetByID(Database(products, <<>>, up), id),
                          !.cached = CacheGet(Handle(store, faults),
                                              ProductKey(userID, id)).err = "",
                          !.lost = r.c.failed]
    /\ UNCHANGED <<products, minted, minute, beyondProducts>>

\* GET /products
GetAllByUserRequest(userID, heap, faults, up) ==
    /\ served < MaxRequests
    /\ \E r \in {GetAllByUser(Handle(store, faults), Database(products, heap, up),
                              userID, minute)} :
          /\ Troubled(faults, r.c, up)
          /\ store' = r.c.store
          /\ reply' = [NoReply EXCEPT !.op = "GetAllByUser", !.user = userID,
                          !.before = products, !.err = r.err,
                          !.status = IF r.err = "" THEN 200 ELSE 500,
                          !.value = r.products,
                          !.direct = GetByUserID(Database(products, heap, up), userID),
                          !.cached = CacheGet(Handle(store, faults),
                                              UserProductsKey(userID)).err = "",
                          !.lost = r.c.failed]
    /\ UNCHANGED <<products, minted, minute, beyondProducts>>

\* GET /products/filtered
GetProductsWithFiltersRequest(userID, query, heap, faults, up) ==
    /\ served < MaxRequests
    /\ \E r \in {GetProductsWithFilters(Handle(store, faults),
                                        Database(products, heap, up),
                                        userID, query, minute)} :
          /\ Troubled(faults, r.c, up)
          /\ store' = r.c.store
          /\ reply' = [NoReply EXCEPT !.op = "GetProductsWithFilters",
                          !.user = userID, !.query = query,
                          !.before = products, !.err = r.err,
                          !.status = IF r.err = "" THEN 200 ELSE 500,
                          !.value = r.response,
                          !.direct = RepoGetProductsWithFilters(
                                        Database(products, heap, up), userID, query),
                          !.cached = CacheGet(Handle(store, faults),
                                        generateQueryCacheKey(userID, query)).err = "",
                          !.lost = r.c.failed]
    /\ UNCHANGED <<products, minted, minute, beyondProducts>>

\* GET /products/cursor
GetProductsWithCursorRequest(userID, query, heap, faults, up) ==
    /\ served < MaxRequests
    /\ \E r \in {GetProductsWithCursor(Handle(store, faults),
                                       Database(products, heap, up),
                                       userID, query, minute)} :
          /\ Troubled(faults, r.c, up)
          /\ store' = r.c.store
          /\ reply' = [NoReply EXCEPT !.op = "GetProductsWithCursor",
                          !.user = userID, !.query = query,
                          !.before = products, !.err = r.err,
                          !.status = IF r.err = "" THEN 200 ELSE 500,
                          !.value = r.response,
                          !.direct = RepoGetProductsWithCursor(
                                        Database(products, heap, up), userID, query),
                          !.cached = CacheGet(Handle(store, faults),
                                        generateCursorQueryCacheKey(userID, query)).err = "",
                          !.lost = r.c.failed]
    /\ UNCHANGED <<products, minted, minute, beyondProducts>>

\* GET /products/stats
GetProductStatsRequest(userID, faults, up) ==
    /\ served < MaxRequests
    /\ \E r \in {GetProductStats(Handle(store, faults),
                                 Database(products, <<>>, up), userID, minute)} :
          /\ Troubled(faults, r.c, up)
          /\ store' = r.c.store
          /\ reply' = [NoReply EXCEPT !.op = "GetProductStats", !.user = userID,
                          !.before = products, !.err = r.err,
                          !.status = IF r.err = "" THEN 200 ELSE 500,
                          !.value = r.stats,
                          !.direct = RepoGetProductStats(
                                        Database(products, <<>>, up), userID),
                          !.cached = CacheGet(Handle(store, faults),
                                              UserStatsKey(userID)).err = "",
                          !.lost = r.c.failed]
    /\ UNCHANGED <<products, minted, minute, beyondProducts>>

\* PUT /products/:id
UpdateRequest(userID, id, req, faults, up) ==
    /\ served < MaxRequests
    /\ \E r \in {Update(Handle(store, faults), Database(products, <<>>, up),
                        Patch(id, req), userID, minute)} :
          /\ Troubled(faults, r.c, up)
          /\ store' = r.c.store
          /\ products' = r.table
          /\ reply' = [NoReply EXCEPT !.op = "Update", !.user = userID,
                          !.id = id, !.query = req, !.before = products,
                          !.err = r.err,
                          !.status = IF r.err = "" THEN 200 ELSE 400,
                          !.lost = r.c.failed, !.held = Held(store, userID)]
    /\ UNCHANGED <<minted, minute, beyondProducts>>

\* DELETE /products/:id
DeleteRequest(userID, id, faults, up) ==
    /\ served < MaxRequests
    /\ \E r \in {Delete(Handle(store, faults), Database(products, <<>>, up),
                        id, userID)} :
          /\ Troubled(faults, r.c, up)
          /\ store' = r.c.store
          /\ products' = r.table
          /\ reply' = [NoReply EXCEPT !.op = "Delete", !.user = userID,
                          !.id = id, !.before = products, !.err = r.err,
                          !.status = IF r.err = "" THEN 200 ELSE 400,
                          !.lost = r.c.failed, !.held = Held(store, userID)]
    /\ UNCHANGED <<minted, minute, beyondProducts>>

\* time passes until an entry of the cache expires; the keys whose TTL has
\* run out are gone
Elapse(t) ==
    /\ t > minute
    /\ \E k \in DOMAIN store : store[k].exp = t
    /\ served < MaxRequests
    /\ extras < MaxTroubles
    /\ extras' = extras + 1
    /\ minute' = t
    /\ store' = [k \in {x \in DOMAIN store : t < store[x].exp} |-> store[k]]
    /\ reply' = NoReply
    /\ UNCHANGED <<products, minted, served, beyondProducts>>

\* the failures a request that issues at most `ops` cache operations can
\* meet (a read issues a Get and a Set, invalidateUserCache up to six
\* operations): a lasting outage that starts during the request, or one operation
\* that fails while the others succeed
Troubles(ops) ==
    IF extras < MaxTroubles
    THEN {f \in Faults : /\ f.from <= ops
                         /\ f.at \subseteq 1..ops
                         /\ Cardinality(f.at) <= 1}
    ELSE {NoOutage}

Availability == IF extras < MaxTroubles THEN BOOLEAN ELSE {TRUE}

ProductNext ==
    \/ \E u \in UserIds, n \in ProductNames, p \in Prices, s \in Stocks,
          id \in ProductIds, f \in Troubles(6), up \in Availability :
          CreateRequest(u, n, p, s, id, f, up)
    \/ \E u \in UserIds, id \in ProductIds, f \in Troubles(2), up \in Availability :
          GetByIDRequest(u, id, f, up)
    \/ \E u \in UserIds, h \in Heaps, f \in Troubles(2), up \in Availability :
          GetAllByUserRequest(u, h, f, up)
    \/ \E u \in UserIds, q \in Queries, h \in Heaps, f \in Troubles(2),
          up \in Availability :
          GetProductsWithFiltersRequest(u, q, h, f, up)
    \/ \E u \in UserIds, q \in CursorQueries, h \in Heaps, f \in Troubles(2),
          up \in Availability :
          GetProductsWithCursorRequest(u, q, h, f, up)
    \/ \E u \in UserIds, f \in Troubles(2), up \in Availability :
          GetProductStatsRequest(u, f, up)
    \/ \E u \in UserIds, id \in ProductIds, req \in UpdateBodies,
          f \in Troubles(6), up \in Availability :
          UpdateRequest(u, id, req, f, up)
    \/ \E u \in UserIds, id \in ProductIds, f \in Troubles(6), up \in Availability :
          DeleteRequest(u, id, f, up)
    \/ \E t \in ProductInstants : Elapse(t)

ProductSpec == ProductInit /\ [][ProductNext]_vars

(***************************************************************************)
(* The cache keys of queries: generateQueryCacheKey and                    *)
(* generateCursorQueryCacheKey applied to the queries the handlers parse   *)
(***************************************************************************)
\* min_price and max_price as strconv.ParseFloat returns them
PriceBounds == {Nil, Ptr(2000), Ptr(10000), Ptr(PosInf)}

KeyFilters ==
    {[NoFilter EXCEPT !.name = n, !.min_price = lo, !.max_price = hi,
                      !.min_stock = s] :
        n \in {NilText, Ptr(<<"a">>)}, lo \in PriceBounds, hi \in PriceBounds,
        s \in {Nil, Ptr(0)}}

\* sort_field and sort_direction
KeySorts == {<<>>, <<[field |-> "price", direction |-> "asc"]>>,
             <<[field |-> "price", direction |-> "desc"]>>}

KeyQueries ==
    {[filter |-> f, sort |-> s,
      pagination |-> [page |-> p, page_size |-> DefaultPageSize]] :
        f \in KeyFilters, s \in KeySorts, p \in 1..2}

KeyCursorQueries ==
    {[filter |-> f, sort |-> s,
      pagination |-> [cursor |-> c, page_size |-> DefaultPageSize]] :
        f \in KeyFilters, s \in KeySorts, c \in {NilText, Ptr(UuidString(1))}}

BuildQueryKey(userID, query) ==
    /\ reply' = [NoReply EXCEPT !.op = "generateQueryCacheKey",
                    !.user = userID, !.query = query,
                    !.value = generateQueryCacheKey(userID, query)]
    /\ UNCHANGED <<store, products, minted, minute, served, extras,
                   beyondProducts>>

BuildCursorQueryKey(userID, query) ==
    /\ reply' = [NoReply EXCEPT !.op = "generateCursorQueryCacheKey",
                    !.user = userID, !.query = query,
                    !.value = generateCursorQueryCacheKey(userID, query)]
    /\ UNCHANGED <<store, products, minted, minute, served, extras,
                   beyondProducts>>

KeyNext ==
    \/ \E u \in UserIds, q \in KeyQueries : BuildQueryKey(u, q)
    \/ \E u \in UserIds, q \in KeyCursorQueries : BuildCursorQueryKey(u, q)

KeySpec == ProductInit /\ [][KeyNext]_vars

(***************************************************************************)
(* Filtered queries over a relational store that holds products already    *)
(***************************************************************************)
RowPrices == {1999, 2999, 3000, 10001}

\* the tables of up to MaxProducts products of the two users
PricedTables ==
    UNION {[ids -> {[NoProduct EXCEPT !.user_id = u, !.name = <<"a">>,
                                      !.price = p, !.stock = 5] :
                       u \in UserIds, p \in RowPrices}] :
              ids \in SUBSET ProductIds}

\* the rows carry their ids
WithIds(table) == [i \in DOMAIN table |-> [table[i] EXCEPT !.id = i]]

FilterInit ==
    /\ now = 0
    /\ extras = 0
    /\ users = [e \in Emails |-> [id |-> UserIdOf(e), password |-> "Aa1!aaaa"]]
    /\ store = <<>>
    /\ nextSession = 1
    /\ issued = {}
    /\ blacklisted = {}
    /\ loggedOut = {}
    /\ blacklistedAll = {}
    /\ loggedOutAll = {}
    /\ resp = NoResp
    /\ calls = <<>>
    /\ written = <<>>
    /\ \E table \in PricedTables :
          /\ products = WithIds(table)
          /\ minted = DOMAIN table
    /\ minute = 0
    /\ served = 0
    /\ reply = NoReply

\* GET /products/filtered with min_price and max_price
PriceQueries ==
    {[filter |-> [NoFilter EXCEPT !.min_price = lo, !.max_price = hi],
      sort |-> <<>>,
      pagination |-> [page |-> 1, page_size |-> DefaultPageSize]] :
        lo \in {Nil, Ptr(2000), Ptr(2999), Ptr(3000)},
        hi \in {Nil, Ptr(2999), Ptr(10000)}}

\* the repository answers a filtered query
FilterProducts(userID, query, heap) ==
    /\ \E r \in {RepoGetProductsWithFilters(Database(products, heap, TRUE),
                                             userID, query)} :
          reply' = [NoReply EXCEPT !.op = "GetProductsWithFilters",
                       !.user = userID, !.query = query, !.before = products,
                       !.err = r.err, !.value = r.response]
    /\ UNCHANGED <<store, products, minted, minute, served, extras,
                   beyondProducts>>

FilterNext ==
    \E u \in UserIds, q \in PriceQueries, h \in Heaps : FilterProducts(u, q, h)

FilterSpec == FilterInit /\ [][FilterNext]_vars

(***************************************************************************)
(* Paginated reads of a relational store that already holds products: a    *)
(* client walks GET /products/cursor page after page, or asks one page of  *)
(* GET /products/filtered                                                  *)
(***************************************************************************)
Birthdays == {0, 1}

\* the tables of up to MaxProducts products of the two users, each created at
\* one of two instants
DatedTables ==
    UNION {[ids -> {[NoProduct EXCEPT !.user_id = u, !.name = <<"a">>,
                                      !.price = p, !.stock = 5,
                                      !.created_at = t, !.updated_at = t] :
                       u \in UserIds, p \in {1999, 2999}, t \in Birthdays}] :
              ids \in SUBSET ProductIds}

PageInit ==
    /\ now = 0
    /\ extras = 0
    /\ users = [e \in Emails |-> [id |-> UserIdOf(e), password |-> "Aa1!aaaa"]]
    /\ store = <<>>
    /\ nextSession = 1
    /\ issued = {}
    /\ blacklisted = {}
    /\ loggedOut = {}
    /\ blacklistedAll = {}
    /\ loggedOutAll = {}
    /\ resp = NoResp
    /\ calls = <<>>
    /\ written = <<>>
    /\ \E table \in DatedTables :
          /\ products = WithIds(table)
          /\ minted = DOMAIN table
    /\ minute = 0
    /\ served = 0
    /\ reply = NoReply

PageSizes == {1, 2}
Pages == 1..3
PageFilters == {NoFilter, [NoFilter EXCEPT !.min_price = Ptr(2000)]}
PageSorts == {<<>>, <<[field |-> "price", direction |-> "asc"]>>}

\* GET /products/cursor?page_size=n, without a cursor
FirstPages ==
    {[filter |-> f, sort |-> s,
      pagination |-> [cursor |-> NilText, page_size |-> n]] :
        f \in PageFilters, s \in PageSorts, n \in PageSizes}

\* GET /products/filtered?page=p&page_size=n
OffsetPages ==
    {[filter |-> f, sort |-> s, pagination |-> [page |-> p, page_size |-> n]] :
        f \in PageFilters, s \in PageSorts, p \in Pages, n \in PageSizes}

\* the client asks the first page; `lost` collects the products of the pages
\* returned so far and `direct` keeps the order in which the store holds its
\* rows during the walk
CursorFirst(userID, query, heap) ==
    /\ \E r \in {RepoGetProductsWithCursor(Database(products, heap, TRUE),
                                            userID, query)} :
          reply' = [NoReply EXCEPT !.op = "GetProductsWithCursor",
                       !.user = userID, !.query = query, !.before = products,
                       !.direct = heap, !.err = r.err, !.value = r.response,
                       !.lost = r.response.products]
    /\ UNCHANGED <<store, products, minted, minute, served, extras,
                   beyondProducts>>

\* the client passes the next_cursor it was given while has_next is true
CursorFollow ==
    /\ reply.op = "GetProductsWithCursor"
    /\ reply.err = ""
    /\ reply.value.has_next
    /\ \E query \in {[reply.query EXCEPT
                         !.pagination.cursor = reply.value.next_cursor]} :
       \E r \in {RepoGetProductsWithCursor(
                     Database(products, reply.direct, TRUE),
                     reply.user, query)} :
          reply' = [reply EXCEPT !.query = query, !.err = r.err,
                       !.value = r.response,
                       !.lost = @ \o r.response.products]
    /\ UNCHANGED <<store, products, minted, minute, served, extras,
                   beyondProducts>>

\* the client asks one page by its number
OffsetPage(userID, query, heap) ==
    /\ \E r \in {RepoGetProductsWithFilters(Database(products, heap, TRUE),
                                             userID, query)} :
          reply' = [NoReply EXCEPT !.op = "GetProductsWithFilters",
                       !.user = userID, !.query = query, !.before = products,
                       !.direct = heap, !.err = r.err, !.value = r.response]
    /\ UNCHANGED <<store, products, minted, minute, served, extras,
                   beyondProducts>>

PageNext ==
    \/ \E u \in UserIds, q \in FirstPages, h \in Heaps : CursorFirst(u, q, h)
    \/ CursorFollow
    \/ \E u \in UserIds, q \in OffsetPages, h \in Heaps : OffsetPage(u, q, h)

PageSpec == PageInit /\ [][PageNext]_vars

(***************************************************************************)
(* Properties                                                              *)
(***************************************************************************)
\* the gatekeeper's verdict on token tk, presented now, when the request
\* meets the failures `faults` of cache operations
Gate(tk, faults) == AuthMiddleware(Bearer(tk), Handle(store, faults), now)

\* the verdict of a session-validity query made now on a reachable store
Valid(sessionID) == IsSessionValid(Reachable(store), sessionID, now).valid

\* the last response answers a request on a protected route
Asked == resp.route # ""

\* C1: once a Logout request made with token t has been answered 200, every
\* gatekeeper evaluation of t, whenever it is made and whether or not the
\* cache store stays reachable during it, rejects the request with 401.
C1_LoggedOutTokenRejected ==
    \A tk \in loggedOut : \A n \in Faults :
        /\ Gate(tk, n).status = 401
        /\ ~Gate(tk, n).next

\* a token that is still unexpired was presented after its logout and refused
C1_Witness ==
    /\ Asked
    /\ resp.route = "sessions"
    /\ resp.header.token \in loggedOut
    /\ resp.header.token.type = "access"
    /\ now < resp.header.token.exp
    /\ resp.status = 401
    /\ resp.handler = ""

\* C2 as stated: the rejection of an unexpired token whose logout succeeded
\* is the one of step 4, the token blacklist.
C2_RejectedByTokenBlacklist ==
    \A tk \in loggedOut :
        now < tk.exp => Gate(tk, NoOutage).failed = 4

\* C2, amended: the rejection of an unexpired token whose logout succeeded is
\* the one of step 3, "Session expired or invalid", because the logout
\* deleted the session; the token blacklist of step 4 is not consulted.
C2_RejectedBySessionCheck ==
    \A tk \in loggedOut :
        now < tk.exp =>
            /\ Gate(tk, NoOutage).failed = 3
            /\ Gate(tk, NoOutage).message = "Session expired or invalid"
            /\ \A i \in 1..Len(Gate(tk, NoOutage).c.log) :
                   Gate(tk, NoOutage).c.log[i][1] # "Exists"

\* the token of a successful logout was presented again, unexpired, while its
\* blacklist entry was in the store, and was refused at the session check
C2_Witness ==
    /\ Asked
    /\ resp.header.token \in loggedOut
    /\ now < resp.header.token.exp
    /\ BlacklistKey(hashToken(resp.header.token)) \in DOMAIN store
    /\ ~resp.hit
    /\ resp.failed = 3
    /\ resp.pre[4] = FALSE

\* C3: when a user holds two sessions and a LogoutAll of that user is
\* answered 200, every later gatekeeper evaluation of every token bound to
\* either session rejects the request.
C3_LogoutAllRejectsEverySession ==
    \A r1 \in loggedOutAll, r2 \in loggedOutAll :
        (r1.user = r2.user /\ r1.at = r2.at /\ r1.session # r2.session) =>
            \A tk \in Presentable :
                tk.session_id = r1.session =>
                    /\ Gate(tk, NoOutage).status = 401
                    /\ ~Gate(tk, NoOutage).next

\* C4: a session id returned by a successful CreateSession is valid right
\* after the create, for every user and whatever the store holds; and no
\* session id is valid right after DeleteSession of it.  The same holds of
\* the create made by a login answered 200 and of the delete made by a
\* logout answered 200.
C4_ValidAfterCreateInvalidAfterDelete ==
    /\ \A u \in UserIds :
          LET cr == CreateSession(Reachable(store), nextSession, u, EmailOf(u),
                                  now, SessionDuration)
          IN  /\ cr.err = ""
              /\ cr.session.id = nextSession
              /\ IsSessionValid(cr.c, cr.session.id, now).valid
              /\ ~IsSessionValid(DeleteSession(cr.c, cr.session.id).c,
                                 cr.session.id, now).valid
    /\ \A id \in 1..MaxSessions :
          ~IsSessionValid(DeleteSession(Reachable(store), id).c, id, now).valid
    /\ (resp.handler = "login" /\ resp.status = 200) => Valid(resp.session)
    /\ (resp.handler = "logout" /\ resp.status = 200) => ~Valid(resp.session)

\* a logout answered 200 has deleted a session that a login had created and
\* that was valid when the request arrived
C4_Witness ==
    /\ resp.handler = "logout"
    /\ resp.status = 200
    /\ resp.pre[3]
    /\ resp.session < nextSession
    /\ SessionKey(resp.session) \notin DOMAIN store

\* C5: at every moment, IsSessionValid(id) is true exactly when a record is
\* stored under the session key of id, the record is active, and
\* now < expires_at.
C5_ValidIffStoredActiveUnexpired ==
    \A id \in 0..MaxSessions :
        Valid(id) <=>
            /\ SessionKey(id) \in DOMAIN store
            /\ store[SessionKey(id)].val.is_active
            /\ now < store[SessionKey(id)].val.expires_at

\* a session record is in the store at the very instant it expires
C5_Witness ==
    \E id \in 1..MaxSessions :
        /\ SessionKey(id) \in DOMAIN store
        /\ store[SessionKey(id)].val.is_active
        /\ now = store[SessionKey(id)].val.expires_at
        /\ ~Valid(id)

\* the first check that fails among the five, 0 when all of them pass
FirstFailing(pre) ==
    IF \A i \in 1..5 : pre[i] THEN 0
    ELSE CHOOSE i \in 1..5 : ~pre[i] /\ \A j \in 1..(i - 1) : pre[j]

\* the unauthorized reasons of each of the five checks
Reasons ==
    <<{"Authorization header is required", "Invalid authorization header format"},
      {"Invalid or expired token", "Invalid token claims",
       "Invalid user ID in token", "Invalid session ID in token",
       "Invalid user ID format"},
      {"Session expired or invalid"},
      {"Token has been invalidated"},
      {"Session has been invalidated by logout all"}>>

\* the cache lookups of the session check, of the token-blacklist check and
\* of the user-session-blacklist check
Lookups == <<<<"Get", "session">>, <<"Exists", "blacklist">>,
             <<"Exists", "user_blacklist">>>>

\* C6: the gatekeeper reports the first check that fails in the order header,
\* token, session, token blacklist, user-session blacklist; it has then
\* evaluated that check and the checks before it and made no lookup of a
\* later check; and reasons of different checks differ.
C6_FixedOrderShortCircuit ==
    /\ \A i \in 1..5, j \in 1..5 : i # j => Reasons[i] \cap Reasons[j] = {}
    /\ \A h \in Headers :
          LET a == AuthMiddleware(h, Reachable(store), now)
              log == a.c.log
          IN  /\ a.failed = FirstFailing(Passes(h, store, now))
              /\ a.checks = SubSeq(CheckOrder, 1,
                                   IF a.failed = 0 THEN 5 ELSE a.failed)
              /\ a.failed # 0 => a.message \in Reasons[a.failed]
              /\ a.failed \in {1, 2} => log = <<>>
              /\ a.failed = 3 =>
                    /\ log[1] = Lookups[1]
                    /\ \A i \in 1..Len(log) : log[i][1] # "Exists"
              /\ a.failed = 4 => log = SubSeq(Lookups, 1, 2)
              /\ a.failed \in {0, 5} => log = Lookups
    /\ (Asked /\ ~resp.hit) =>
          /\ resp.failed = FirstFailing(resp.pre)
          /\ resp.failed # 0 => resp.message \in Reasons[resp.failed]

\* a request passed the first four checks and was refused by the fifth, and a
\* token that fails both the session check and the token-blacklist check
\* exists
C6_Witness ==
    /\ Asked
    /\ ~resp.hit
    /\ resp.pre = <<TRUE, TRUE, TRUE, TRUE, FALSE>>
    /\ resp.failed = 5
    /\ \E tk \in issued :
          /\ ~Passes(Bearer(tk), store, now)[3]
          /\ ~Passes(Bearer(tk), store, now)[4]

\* C7: a protected handler runs exactly when the gatekeeper let the request
\* through, which it does only when all five checks pass; the context then
\* holds the user_id and session_id of the token's claims and the token
\* presented; a request that fails a check reaches no handler and gets no
\* context.
C7_HandlerOnlyAfterAllChecks ==
    /\ Asked =>
          /\ resp.handler # "" <=> resp.next
          /\ resp.next <=> resp.failed = 0
          /\ resp.next => \A i \in 1..5 : resp.pre[i]
          /\ resp.next =>
                /\ resp.handler = resp.route
                /\ resp.ctx = [user_id |-> resp.header.token.user_id,
                               session_id |-> resp.header.token.session_id,
                               token |-> resp.header.token]
                /\ resp.user = resp.ctx.user_id
                /\ resp.session = resp.ctx.session_id
          /\ ~resp.next =>
                /\ resp.ctx = NoCtx
                /\ resp.status = 401
                /\ resp.user = NoClaim /\ resp.session = NoSessionId
    /\ \A h \in Headers :
          LET a == AuthMiddleware(h, Reachable(store), now)
          IN  /\ a.next <=> \A i \in 1..5 : Passes(h, store, now)[i]
              /\ a.next => a.ctx = [user_id |-> h.token.user_id,
                                    session_id |-> h.token.session_id,
                                    token |-> h.token]
              /\ ~a.next => a.ctx = NoCtx

\* a handler ran on the context of a verified token
C7_Witness ==
    /\ Asked
    /\ resp.handler = "sessions"
    /\ resp.status = 200
    /\ resp.ctx.token = resp.header.token
    /\ resp.ctx.user_id \in UserIds
    /\ resp.ctx.session_id # NoSessionId

\* whether the token-blacklist query answers true for tk on handle c
Revoked(c, tk) == IsTokenBlacklisted(c, tk).exists

\* C8: BlacklistToken(t) followed by IsTokenBlacklisted(t) gives true, and
\* IsTokenBlacklisted(t2) for another token t2 gives what it gave before;
\* every token whose BlacklistToken succeeded is reported blacklisted until
\* the entry's TTL has run out, and no other token is.
C8_BlacklistRoundTrip ==
    /\ \A t1 \in Presentable :
          LET b == BlacklistToken(Reachable(store), t1, now)
          IN  /\ b.err = ""
              /\ Revoked(b.c, t1)
              /\ \A t2 \in Presentable \ {t1} :
                    Revoked(b.c, t2) <=> Revoked(Reachable(store), t2)
    /\ \A b \in blacklisted :
          now < b.at + BlacklistTTL => Revoked(Reachable(store), b.token)
    /\ \A tk \in Presentable :
          Revoked(Reachable(store), tk) => \E b \in blacklisted : b.token = tk

\* a token is blacklisted while the refresh token issued with it is not
C8_Witness ==
    \E b \in blacklisted : \E t2 \in issued :
        /\ t2 # b.token
        /\ t2.session_id = b.token.session_id
        /\ t2.user_id = b.token.user_id
        /\ Revoked(Reachable(store), b.token)
        /\ ~Revoked(Reachable(store), t2)

\* whether the user-session-blacklist query answers true on handle c
RevokedAll(c, u, s) == IsUserSessionBlacklisted(c, u, s).exists

\* C9: after BlacklistAllUserSessions(u) has returned success, every session
\* of u that was stored, active and unexpired when the call started is
\* reported user-session-blacklisted (for as long as the entry's TTL runs).
C9_BlacklistAllCoversEverySession ==
    \A r \in blacklistedAll :
        now < r.at + BlacklistTTL =>
            RevokedAll(Reachable(store), r.user, r.session)

\* the sessions of u that a BlacklistAllUserSessions(u) has blacklisted
Swept(u) == {r.session : r \in {x \in blacklistedAll : x.user = u}}

\* C10: a login of user u answered 200 after a LogoutAll(u) creates a session
\* that is not user-session-blacklisted, that IsSessionValid accepts and
\* whose access token the gatekeeper accepts; a user-session-blacklist entry
\* names a session that existed when the entry was written.
C10_LaterSessionUnaffected ==
    /\ (resp.handler = "login" /\ resp.status = 200 /\ Swept(resp.user) # {}) =>
          /\ resp.session \notin Swept(resp.user)
          /\ ~RevokedAll(Reachable(store), resp.user, resp.session)
          /\ Valid(resp.session)
          /\ \A tk \in resp.tokens :
                tk.type = "access" =>
                    /\ Gate(tk, NoOutage).next
                    /\ Gate(tk, NoOutage).ctx.session_id = resp.session
    /\ \A u \in UserIds, s \in 1..MaxSessions :
          RevokedAll(Reachable(store), u, s) =>
              /\ s < nextSession
              /\ SessionKey(s) \in DOMAIN store =>
                    store[SessionKey(s)].val.created_at + BlacklistTTL
                        <= store[UserBlacklistKey(u, s)].exp

\* a user logs in while the blacklist entry of a session swept by an earlier
\* successful LogoutAll is still in the store
C10_Witness ==
    /\ resp.handler = "login"
    /\ resp.status = 200
    /\ \E r \in loggedOutAll :
          /\ r.user = resp.user
          /\ r.session < resp.session
          /\ RevokedAll(Reachable(store), r.user, r.session)

(***************************************************************************)
(* C11: DeleteSession is idempotent.  From every store the service can     *)
(* reach and for every session id, a second DeleteSession(id) leaves the   *)
(* store as the first one left it, and the second call returns no error.   *)
(***************************************************************************)
SessionIds == 0..MaxSessions

C11_DeleteSessionIdempotent ==
    \A id \in SessionIds :
        LET once == DeleteSession(Reachable(store), id)
            twice == DeleteSession(Reachable(once.c.store), id)
        IN  /\ once.err = ""
            /\ twice.err = ""
            /\ twice.c.store = once.c.store

\* a stored session whose user's index entry names another session: the first
\* DeleteSession removes the record and that index entry
C11_Witness ==
    \E id \in SessionIds :
        /\ SessionKey(id) \in DOMAIN store
        /\ UserSessionsKey(store[SessionKey(id)].val.user_id) \in DOMAIN store
        /\ store[UserSessionsKey(store[SessionKey(id)].val.user_id)].val # id
        /\ DeleteSession(Reachable(store), id).c.store # store

(***************************************************************************)
(* C12: a successful Logout of session S1 leaves every other session S2    *)
(* untouched: the record of S2 is unchanged, a session-validity query on   *)
(* S2 that answered true still answers true, and the gatekeeper still      *)
(* accepts the tokens bound to S2 that it accepted before.                 *)
(***************************************************************************)
\* the step is a Logout request answered 200
LogoutSucceeds ==
    /\ resp = NoResp
    /\ resp'.handler = "logout"
    /\ resp'.status = 200

C12_LogoutLeavesOtherSessions ==
    [][LogoutSucceeds =>
        \A id \in SessionIds \ {resp'.session} :
            /\ SessionKey(id) \in DOMAIN store =>
                  /\ SessionKey(id) \in DOMAIN store'
                  /\ store'[SessionKey(id)] = store[SessionKey(id)]
            /\ Valid(id) => Valid(id)'
            /\ \A tk \in {x \in issued : x.session_id = id} :
                  Gate(tk, NoOutage).next => Gate(tk, NoOutage)'.next]_vars

\* a Logout answered 200 while the same user holds another session, whose
\* access token the gatekeeper accepts
C12_Witness ==
    /\ resp.handler = "logout"
    /\ resp.status = 200
    /\ \E id \in SessionIds \ {resp.session} :
          /\ SessionKey(id) \in DOMAIN store
          /\ store[SessionKey(id)].val.user_id = resp.user
          /\ Valid(id)
          /\ \E tk \in issued :
                /\ tk.session_id = id
                /\ tk.type = "access"
                /\ Gate(tk, NoOutage).next

(***************************************************************************)
(* C13: under every interleaving of concurrent CreateSession calls for the *)
(* same user, every call that has returned has succeeded, the sessions     *)
(* created are valid, each whether or not the other is deleted, and the    *)
(* index user_sessions:{u} holds the id of the last index write made.      *)
(***************************************************************************)
\* the index writes made so far for user u, in order
IndexWrites(u) == SelectSeq(written, LAMBDA w : w[1] = u)

C13_ConcurrentCreateSession ==
    /\ \A p \in DOMAIN calls :
          calls[p].pc = "done" =>
              /\ calls[p].err = ""
              /\ Valid(calls[p].session)
    /\ \A p, q \in DOMAIN calls :
          /\ p # q
          /\ calls[p].pc = "done"
          /\ calls[q].pc = "done"
          /\ calls[p].user = calls[q].user
          => /\ calls[p].session # calls[q].session
             /\ IsSessionValid(DeleteSession(Reachable(store), calls[q].session).c,
                               calls[p].session, now).valid
    /\ \A u \in UserIds :
          IndexWrites(u) # <<>> =>
              /\ UserSessionsKey(u) \in DOMAIN store
              /\ store[UserSessionsKey(u)].val
                    = IndexWrites(u)[Len(IndexWrites(u))][2]

\* two calls for one user have returned, and the index holds the id of the
\* call that entered first: its index write came last
C13_Witness ==
    \E p, q \in DOMAIN calls :
        /\ calls[p].pc = "done"
        /\ calls[q].pc = "done"
        /\ calls[p].user = calls[q].user
        /\ calls[p].session < calls[q].session
        /\ store[UserSessionsKey(calls[p].user)].val = calls[p].session

(***************************************************************************)
(* C14: a cache-store write that fails on a write path is never reported   *)
(* as success.  A Login whose session write or index write failed is not   *)
(* answered 200 and returns no tokens; a Logout whose blacklist write      *)
(* failed is not answered 200; a LogoutAll one of whose blacklist writes   *)
(* failed is not answered 200.  CreateSession and BlacklistToken report an *)
(* error whichever of their cache operations fail, in every state.         *)
(***************************************************************************)
\* a write of a key with this prefix failed during the request
Lost(failed, prefix) == \E i \in DOMAIN failed : failed[i] = <<"Set", prefix>>

\* CreateSession issues two cache operations and BlacklistToken one: the
\* fault patterns that differ on the first two operations
WriteFaults == {n \in Faults : n.from <= 2 /\ n.at \subseteq 1..2}

C14_WriteFailurePropagates ==
    /\ (resp.handler = "login"
            /\ (Lost(resp.lost, "session") \/ Lost(resp.lost, "user_sessions")))
          => resp.status # 200 /\ resp.tokens = {}
    /\ (resp.handler = "logout" /\ Lost(resp.lost, "blacklist"))
          => resp.status >= 400
    /\ (resp.handler = "logout-all" /\ Lost(resp.lost, "user_blacklist"))
          => resp.status >= 400
    /\ \A n \in WriteFaults :
          /\ \A u \in UserIds :
                LET w == CreateSession(Handle(store, n), nextSession, u,
                                       EmailOf(u), now, SessionDuration)
                IN  (Lost(w.c.failed, "session") \/ Lost(w.c.failed, "user_sessions"))
                        => w.err # "" /\ w.session = NoSession
          /\ \A tk \in issued :
                LET w == BlacklistToken(Handle(store, n), tk, now)
                IN  Lost(w.c.failed, "blacklist") => w.err # ""

\* a LogoutAll answered with an error after one of its blacklist writes failed
C14_Witness ==
    /\ resp.handler = "logout-all"
    /\ Lost(resp.lost, "user_blacklist")
    /\ resp.status = 500

(***************************************************************************)
(* C15: IsSessionValid swallows into false only the not-found and expired  *)
(* outcomes of the session lookup.  When the lookup of a stored session    *)
(* fails because the cache store is unreachable, IsSessionValid returns an *)
(* error and does not answer that the session is invalid.                  *)
(***************************************************************************)
\* the request's first cache operation fails
FirstFails == [from |-> 0, at |-> {1}]

C15_UnavailableNotSwallowed ==
    \A id \in SessionIds :
        /\ SessionKey(id) \notin DOMAIN store =>
              LET v == IsSessionValid(Reachable(store), id, now)
              IN  ~v.valid /\ v.err = ""
        /\ SessionKey(id) \in DOMAIN store =>
              LET v == IsSessionValid(Handle(store, FirstFails), id, now)
              IN  v.c.failed = <<<<"Get", "session">>>> => v.err # ""

(***************************************************************************)
(* C16: when a cache read or write fails during GetByID, GetAllByUser,     *)
(* GetProductsWithFilters, GetProductsWithCursor or GetProductStats, the   *)
(* operation does not fail on that account: it returns what the relational *)
(* store returns for that call (for GetByID, subject to its ownership      *)
(* check).                                                                 *)
(***************************************************************************)
ReadOperations == {"GetByID", "GetAllByUser", "GetProductsWithFilters",
                   "GetProductsWithCursor", "GetProductStats"}

\* the relational store's answer to the last read, as [err, value]
Stored ==
    LET d == reply.direct IN
    CASE reply.op = "GetByID" ->
            IF d.err = "" /\ d.product.user_id # reply.user
            THEN [err |-> "unauthorized access to product", value |-> NoProduct]
            ELSE [err |-> d.err, value |-> d.product]
      [] reply.op = "GetAllByUser" -> [err |-> d.err, value |-> d.products]
      [] reply.op \in {"GetProductsWithFilters", "GetProductsWithCursor"} ->
            [err |-> d.err, value |-> d.response]
      [] reply.op = "GetProductStats" -> [err |-> d.err, value |-> d.stats]

C16_CacheFailureFallsThrough ==
    (reply.op \in ReadOperations /\ reply.lost # <<>>)
        => /\ reply.err = Stored.err
           /\ reply.value = Stored.value
           /\ reply.status = (IF Stored.err = "" THEN 200
                              ELSE IF reply.op = "GetByID" THEN 404 ELSE 500)

\* a GetByID whose cache read failed, answered with the row of the
\* relational store
C16_Witness ==
    /\ reply.op = "GetByID"
    /\ reply.lost # <<>>
    /\ reply.lost[1][1] = "Get"
    /\ reply.err = ""
    /\ reply.value = reply.before[reply.id]

(***************************************************************************)
(* C17: the TTL of a token blacklist entry is at least the lifetime of     *)
(* every token the issuer mints, so that the blacklist entry of a minted   *)
(* token never expires before the token does: whenever BlacklistToken is   *)
(* applied to a minted token, and for every entry it has written, the      *)
(* entry's expiry is not earlier than the token's.                         *)
(***************************************************************************)
C17_BlacklistEntryOutlivesToken ==
    /\ \A tk \in issued :
          LET w == BlacklistToken(Reachable(store), tk, now)
          IN  ParseToken(tk, now) =>
                  w.c.store[BlacklistKey(hashToken(tk))].exp >= tk.exp
    /\ \A b \in blacklisted : b.at + BlacklistTTL >= b.token.exp

(***************************************************************************)
(* C18: a token minted at time t expires at t + 1 hour (access) or         *)
(* t + 7 days (refresh); its verification succeeds at every time before    *)
(* its exp and fails at every time after its exp, and the gatekeeper's     *)
(* token check follows the verification.                                   *)
(***************************************************************************)
\* the times at which a minted token can be verified
VerificationTimes == 0..(SessionDuration + MaxLate + RefreshTokenTTL + 1)

C18_VerifiedUntilExpiry ==
    /\ (resp.handler \in {"login", "refresh"} /\ resp.status = 200) =>
          /\ resp.tokens # {}
          /\ \A tk \in resp.tokens :
                tk.exp = now + (IF tk.type = "access" THEN AccessTokenTTL
                                ELSE RefreshTokenTTL)
    /\ \A tk \in issued : \A t \in VerificationTimes :
          /\ t < tk.exp => ParseToken(tk, t)
          /\ t > tk.exp => ~ParseToken(tk, t)
    /\ (Asked /\ resp.header.token \in issued) =>
          /\ now < resp.header.token.exp => resp.failed \notin {1, 2}
          /\ now > resp.header.token.exp => resp.failed = 2 /\ resp.status = 401

\* a minted token presented after its expiry and rejected by the token check
C18_Witness ==
    /\ Asked
    /\ resp.header.token \in issued
    /\ now > resp.header.token.exp
    /\ resp.failed = 2

(***************************************************************************)
(* C19: the 401 response does not reveal which check failed.  Two requests *)
(* that fail different checks among the token check, the session check,    *)
(* the token-blacklist check and the user-session-blacklist check receive  *)
(* the same response.                                                      *)
(***************************************************************************)
\* the response the gatekeeper writes for a request it rejects
Unauthorized(a) == [status |-> a.status, error |-> "Unauthorized",
                    message |-> a.message]

C19_FailedCheckNotRevealed ==
    \A h1, h2 \in Headers :
        LET a1 == AuthMiddleware(h1, Reachable(store), now)
            a2 == AuthMiddleware(h2, Reachable(store), now)
        IN  (/\ a1.failed \in 2..5
             /\ a2.failed \in 2..5
             /\ a1.failed # a2.failed)
            => Unauthorized(a1) = Unauthorized(a2)

(***************************************************************************)
(* C20: user isolation.  GetByID, GetAllByUser, GetProductsWithFilters and *)
(* GetProductsWithCursor called for user u return no product whose owner   *)
(* is not u, whether the answer comes from the cache or from the           *)
(* relational store; Update and Delete called by a user who does not own   *)
(* the product return an error and leave the product unchanged in the      *)
(* relational store.                                                       *)
(***************************************************************************)
\* the products the last read returned
Returned ==
    CASE reply.op = "GetByID" -> {reply.value}
      [] reply.op = "GetAllByUser" ->
            {reply.value[i] : i \in DOMAIN reply.value}
      [] reply.op \in {"GetProductsWithFilters", "GetProductsWithCursor"} ->
            {reply.value.products[i] : i \in DOMAIN reply.value.products}
      [] OTHER -> {}

C20_UserIsolation ==
    /\ reply.err = "" => \A p \in Returned : p.user_id = reply.user
    /\ (/\ reply.op \in {"Update", "Delete"}
        /\ reply.id \in DOMAIN reply.before
        /\ reply.before[reply.id].user_id # reply.user)
           => /\ reply.err # ""
              /\ reply.status = 400
              /\ products = reply.before

\* a list of the user's products answered from the cache while the
\* relational store holds a product of another user
C20_Witness ==
    /\ reply.op = "GetAllByUser"
    /\ reply.cached
    /\ reply.err = ""
    /\ reply.value # <<>>
    /\ \E id \in DOMAIN products : products[id].user_id # reply.user

(***************************************************************************)
(* C21: a get, update or delete request for a product that does not exist  *)
(* or that another user owns is answered with status 404.                  *)
(***************************************************************************)
\* the last request named a product that is missing or owned by another user
MissingOrForeign ==
    \/ reply.id \notin DOMAIN reply.before
    \/ reply.before[reply.id].user_id # reply.user

C21_MissingOrForeignIs404 ==
    (reply.op \in {"GetByID", "Update", "Delete"} /\ MissingOrForeign)
        => reply.status = 404

(***************************************************************************)
(* C22: with no other request in flight, after a successful Create, Update *)
(* or Delete of a product of user A the next GetProductStats(A) returns    *)
(* the statistics of the relational store as the mutation left it, even    *)
(* when statistics were cached before the mutation.                        *)
(***************************************************************************)
Mutations == {"Create", "Update", "Delete"}

\* the GetProductStats the user of the last request would be served now, and
\* the statistics of the relational store as it is now
NextStats == GetProductStats(Reachable(store), Database(products, <<>>, TRUE),
                             reply.user, minute)
FreshStats == RepoGetProductStats(Database(products, <<>>, TRUE), reply.user)

\* the mutation's deletion of user_stats:{A} failed
StatsDeleteLost ==
    \E i \in DOMAIN reply.lost : reply.lost[i] = <<"Del", "user_stats">>

Invalidated == {"user_products", "user_stats", "user_products_filtered",
                "user_products_cursor"}

\* cache store `after` holds no invalidated entry of u and every entry that
\* cache store `st` holds for another user
SweptFor(st, after, u) ==
    /\ Held(after, u) \cap Invalidated = {}
    /\ \A k \in DOMAIN st :
          k[2] # u => k \in DOMAIN after /\ after[k] = st[k]

\* the cache stores a successful mutation by u, arriving now with the cache
\* reachable, can leave
Mutated(u) ==
    LET db == Database(products, <<>>, TRUE)
        c == Reachable(store)
        creates == {Create(c, db, [NoProduct EXCEPT !.name = n, !.price = p,
                                                    !.stock = s], u, id, minute) :
                       n \in ProductNames, p \in Prices, s \in Stocks,
                       id \in ProductIds \ minted}
        updates == {Update(c, db, [ch EXCEPT !.id = id], u, minute) :
                       ch \in Changes, id \in ProductIds}
        deletes == {Delete(c, db, id, u) : id \in ProductIds}
    IN  {r.c.store : r \in {x \in creates \cup updates \cup deletes : x.err = ""}}

C23_InvalidationSweepsUser ==
    /\ (reply.op \in Mutations /\ reply.err = "" /\ reply.lost = <<>>)
          => Held(store, reply.user) \cap Invalidated = {}
    /\ \A u \in UserIds : \A after \in Mutated(u) : SweptFor(store, after, u)

\* a mutation that found invalidated kinds of entries of its user in the
\* cache and removed them, while the cache holds an entry of another user
C23_Witness ==
    /\ reply.op \in Mutations
    /\ reply.err = ""
    /\ reply.lost = <<>>
    /\ reply.held \cap Invalidated # {}
    /\ Held(store, reply.user) \cap Invalidated = {}
    /\ \E k \in DOMAIN store : k[2] # reply.user /\ k[1] \in Invalidated

(***************************************************************************)
(* C24: the query cache key is a function of (user id, filters, sort list, *)
(* pagination): equal queries of one user have the same key, and two       *)
(* queries that differ in a filter, sort or pagination value, or two       *)
(* different users, never share a key.                                     *)
(***************************************************************************)
C24_QueryKeyInjective ==
    /\ reply.op = "generateQueryCacheKey" =>
          \A u \in UserIds, q \in KeyQueries :
              generateQueryCacheKey(u, q) = reply.value
                  <=> (u = reply.user /\ q = reply.query)
    /\ reply.op = "generateCursorQueryCacheKey" =>
          \A u \in UserIds, q \in KeyCursorQueries :
              generateCursorQueryCacheKey(u, q) = reply.value
                  <=> (u = reply.user /\ q = reply.query)

(***************************************************************************)
(* C25: a filtered query with min_price and/or max_price returns exactly   *)
(* the caller's products whose price p satisfies min_price <= p and        *)
(* p <= max_price, the bounds included and an absent bound imposing no     *)
(* limit: a product priced 29.99 is returned for min_price = 20,           *)
(* max_price = 100 and is not returned for min_price = 30.                 *)
(***************************************************************************)
\* the caller's products within the price bounds of the last query
WithinBounds ==
    LET f == reply.query.filter IN
    {reply.before[i] : i \in {j \in DOMAIN reply.before :
        /\ reply.before[j].user_id = reply.user
        /\ f.min_price.set => f.min_price.v <= reply.before[j].price
        /\ f.max_price.set => reply.before[j].price <= f.max_price.v}}

C25_PriceBoundsInclusive ==
    reply.op = "GetProductsWithFilters" =>
        /\ reply.err = ""
        /\ Returned = WithinBounds
        /\ Len(reply.value.products) = Cardinality(WithinBounds)
        /\ reply.value.total = Cardinality(WithinBounds)
        /\ \A p \in WithinBounds :
              p.price = 2999 => reply.query.filter.min_price # Ptr(3000)

\* the caller's product priced 29.99 is returned for min_price = 29.99,
\* max_price = 29.99 while the caller has another product the query excludes
C25_Witness ==
    /\ reply.op = "GetProductsWithFilters"
    /\ reply.query.filter.min_price = Ptr(2999)
    /\ reply.query.filter.max_price = Ptr(2999)
    /\ \E p \in Returned : p.price = 2999
    /\ \E i \in DOMAIN reply.before :
          /\ reply.before[i].user_id = reply.user
          /\ reply.before[i] \notin Returned

(***************************************************************************)
(* C26: GetSession(id) called at a time now >= expires_at of the stored    *)
(* session, the instant now = expires_at included, returns Expired and     *)
(* deletes the session record; called at now < expires_at it returns the   *)
(* session and deletes nothing.                                            *)
(***************************************************************************)
C26_ExpiredFromExpiresAt ==
    \A id \in SessionIds :
        SessionKey(id) \in DOMAIN store =>
            LET session == store[SessionKey(id)].val
                g == GetSession(Reachable(store), id, now)
            IN  /\ now >= session.expires_at =>
                      /\ g.err = "session expired"
                      /\ SessionKey(id) \notin DOMAIN g.c.store
                /\ now < session.expires_at =>
                      /\ g.err = ""
                      /\ g.session = session
                      /\ g.c.store = store

(***************************************************************************)
(* C27: under every interleaving of a Logout of session S with a           *)
(* concurrent RefreshToken / RefreshSession on S, once the Logout has      *)
(* returned success S is never valid again: no later state has a record    *)
(* under session:{S} and no token bound to S is accepted by the gatekeeper.*)
(***************************************************************************)
C27_LoggedOutStaysOut ==
    \A p \in Callers :
        (/\ calls[p].pc = "done"
         /\ calls[p].op = "Logout"
         /\ calls[p].err = "")
            => /\ SessionKey(calls[p].session) \notin DOMAIN store
               /\ \A tk \in issued :
                     tk.session_id = calls[p].session =>
                        AuthMiddleware(Bearer(tk), Reachable(store), now).failed # 0

(***************************************************************************)
(* C28: in every reachable state, under every interleaving of              *)
(* CreateSession, DeleteSession and DeleteUserSessions, whenever the index *)
(* entry user_sessions:{u} is present it names a session whose record      *)
(* exists under session:{id} and whose user_id is u.                       *)
(***************************************************************************)
C28_IndexNamesLiveSession ==
    \A u \in UserIds :
        UserSessionsKey(u) \in DOMAIN store =>
            /\ SessionKey(store[UserSessionsKey(u)].val) \in DOMAIN store
            /\ store[SessionKey(store[UserSessionsKey(u)].val)].val.user_id = u

(***************************************************************************)
(* C29: the gatekeeper performs no cache-store operation for a request     *)
(* whose header or token check fails, and performs no blacklist lookup for *)
(* a request whose session check fails; the session lookup always precedes *)
(* both blacklist lookups.                                                 *)
(***************************************************************************)
BlacklistLookups == {<<"Exists", "blacklist">>, <<"Exists", "user_blacklist">>}

C29_FailFastLookups ==
    \A h \in Headers, n \in Faults :
        LET a == AuthMiddleware(h, Handle(store, n), now)
            log == a.c.log
        IN  /\ a.failed \in {1, 2} => a.c.n = 0 /\ log = <<>>
            /\ a.failed = 3 =>
                  \A i \in 1..Len(log) : log[i] \notin BlacklistLookups
            /\ \A i \in 1..Len(log) :
                  log[i] \in BlacklistLookups =>
                     \E j \in 1..(i - 1) : log[j] = <<"Get", "session">>

\* a request with a blacklisted token whose session is gone was refused at
\* the session check, and a forged token is at hand
C29_Witness ==
    /\ Asked
    /\ resp.failed = 3
    /\ ~resp.pre[4]
    /\ \E h \in Headers : AuthMiddleware(h, Reachable(store), now).failed = 2

(***************************************************************************)
(* C30: a successful CreateSession(u, ..., duration) returns a session id  *)
(* different from every id stored so far, stores under session:{id} a      *)
(* record with user_id = u, is_active = true and expires_at = now +        *)
(* duration, and sets user_sessions:{u} to that id, both with TTL =        *)
(* duration; records of all other sessions are unchanged.                  *)
(***************************************************************************)
Durations == {AccessTokenTTL, SessionDuration}

SessionKeys(st) == {k \in DOMAIN st : k[1] = "session"}

C30_CreateSessionStores ==
    /\ \A u \in UserIds, d \in Durations, n \in Faults :
          LET cr == CreateSession(Handle(store, n), nextSession, u, EmailOf(u),
                                  now, d)
              id == cr.session.id
              after == cr.c.store
          IN  cr.err = "" =>
                 /\ SessionKey(id) \notin DOMAIN store
                 /\ \A v \in UserIds :
                       UserSessionsKey(v) \in DOMAIN store =>
                          store[UserSessionsKey(v)].val # id
                 /\ SessionKey(id) \in DOMAIN after
                 /\ after[SessionKey(id)].val.id = id
                 /\ after[SessionKey(id)].val.user_id = u
                 /\ after[SessionKey(id)].val.is_active
                 /\ after[SessionKey(id)].val.expires_at = now + d
                 /\ after[SessionKey(id)].exp = now + d
                 /\ UserSessionsKey(u) \in DOMAIN after
                 /\ after[UserSessionsKey(u)] = [val |-> id, exp |-> now + d]
                 /\ \A k \in SessionKeys(store) :
                       k \in DOMAIN after /\ after[k] = store[k]
    /\ (resp.handler = "login" /\ resp.status = 200
        /\ SessionKey(resp.session) \in DOMAIN store) =>
          LET rec == store[SessionKey(resp.session)] IN
          /\ rec.val.user_id = resp.user
          /\ rec.val.is_active
          /\ rec.val.expires_at = rec.val.created_at + SessionDuration
          /\ rec.exp = rec.val.expires_at

\* a login answered 200 has created a session for a user who holds another
\* session: the index names the new one and the record of the old one is
\* still stored
C30_Witness ==
    /\ resp.handler = "login"
    /\ resp.status = 200
    /\ SessionKey(resp.session) \in DOMAIN store
    /\ UserSessionsKey(resp.user) \in DOMAIN store
    /\ store[UserSessionsKey(resp.user)].val = resp.session
    /\ \E k \in SessionKeys(store) :
          /\ k[2] # resp.session
          /\ store[k].val.user_id = resp.user

(***************************************************************************)
(* C31: DeleteUserSessions(u) removes every session record whose user_id   *)
(* is u and the index entry user_sessions:{u}, and leaves every session    *)
(* record and index entry of every other user unchanged.                   *)
(***************************************************************************)
SessionsOf(st, u) == {k \in SessionKeys(st) : st[k].val.user_id = u}

C31_DeleteUserSessionsFrame ==
    \A u \in UserIds, n \in Faults :
        LET d == DeleteUserSessions(Handle(store, n), u)
            after == d.c.store
        IN  d.err = "" =>
               /\ SessionsOf(store, u) \cap DOMAIN after = {}
               /\ UserSessionsKey(u) \notin DOMAIN after
               /\ \A k \in DOMAIN store \ (SessionsOf(store, u)
                                            \cup {UserSessionsKey(u)}) :
                     k \in DOMAIN after /\ after[k] = store[k]

(***************************************************************************)
(* C32: RefreshSession(id, d) on a missing or expired session returns an   *)
(* error and leaves no record under session:{id}; on a valid session it    *)
(* sets expires_at = now + d and TTL = d and changes no other field of the *)
(* record (id, user_id, email, created_at, is_active) and no other key.    *)
(***************************************************************************)
C32_RefreshSessionFrame ==
    \A id \in SessionIds, d \in Durations :
        LET key == SessionKey(id)
            r == RefreshSession(Reachable(store), id, now, d)
            after == r.c.store
        IN  IF key \notin DOMAIN store \/ now >= store[key].val.expires_at
            THEN /\ r.err # ""
                 /\ key \notin DOMAIN after
            ELSE /\ r.err = ""
                 /\ DOMAIN after = DOMAIN store
                 /\ after[key].val = [store[key].val EXCEPT
                                         !.expires_at = now + d]
                 /\ after[key].exp = now + d
                 /\ \A k \in DOMAIN store \ {key} : after[k] = store[k]

(***************************************************************************)
(* C33: RefreshToken returns new tokens only if the session named in the   *)
(* presented token is valid at that moment; the new access and refresh     *)
(* tokens carry the same user_id and session_id as the presented token,    *)
(* the session's expires_at becomes now + 24 hours, and when the session   *)
(* is invalid no token is returned and the store is not written.           *)
(***************************************************************************)
\* RefreshToken issues at most five cache operations
RefreshFaults == {n \in Faults : n.from <= 5 /\ n.at \subseteq 1..5}

C33_RefreshOnlyValidSession ==
    \A rt \in Presentable, n \in RefreshFaults :
        LET r == UserRefreshToken(Handle(store, n), rt, now)
            after == r.c.store
        IN  /\ r.tokens # {} =>
                  /\ r.err = ""
                  /\ Valid(rt.session_id)
                  /\ {tk.type : tk \in r.tokens} = {"access", "refresh"}
                  /\ \A tk \in r.tokens :
                        /\ tk.user_id = rt.user_id
                        /\ tk.session_id = rt.session_id
                  /\ after[SessionKey(rt.session_id)].val.expires_at
                        = now + SessionDuration
            /\ ~Valid(rt.session_id) =>
                  /\ r.tokens = {}
                  /\ r.err # ""
                  /\ after = store

\* C33 as the code has it: the same, except that a refusal may remove the
\* record and the index entry of the session named in the token when that
\* record is stored past its expires_at; no key is set or changed.
C33_RefreshWritesOnlyValid ==
    \A rt \in Presentable, n \in RefreshFaults :
        LET r == UserRefreshToken(Handle(store, n), rt, now)
            after == r.c.store
            key == SessionKey(rt.session_id)
        IN  /\ r.tokens # {} =>
                  /\ r.err = ""
                  /\ Valid(rt.session_id)
                  /\ {tk.type : tk \in r.tokens} = {"access", "refresh"}
                  /\ \A tk \in r.tokens :
                        /\ tk.user_id = rt.user_id
                        /\ tk.session_id = rt.session_id
                  /\ after[key].val.expires_at = now + SessionDuration
            /\ ~Valid(rt.session_id) =>
                  /\ r.tokens = {}
                  /\ r.err # ""
                  /\ \A k \in DOMAIN after :
                        k \in DOMAIN store /\ after[k] = store[k]
                  /\ after # store =>
                        /\ key \in DOMAIN store
                        /\ now > store[key].val.expires_at
                        /\ DOMAIN store \ DOMAIN after \subseteq
                              {key, UserSessionsKey(store[key].val.user_id)}

\* a refresh answered 200 has returned tokens of a session created earlier,
\* whose expires_at is now 24 hours ahead
C33_Witness ==
    /\ resp.handler = "refresh"
    /\ resp.status = 200
    /\ \E tk \in resp.tokens :
          /\ SessionKey(tk.session_id) \in DOMAIN store
          /\ store[SessionKey(tk.session_id)].val.created_at < now
          /\ store[SessionKey(tk.session_id)].val.expires_at
                = now + SessionDuration

(***************************************************************************)
(* C34: token type is enforced: the gatekeeper accepts as bearer           *)
(* credential only a token whose type claim is access, and RefreshToken    *)
(* exchanges only a token whose type claim is refresh; a token of the      *)
(* other type is rejected as invalid.                                      *)
(***************************************************************************)
C34_TokenTypeEnforced ==
    \A tk \in Presentable :
        /\ tk.type # "access" =>
              AuthMiddleware(Bearer(tk), Reachable(store), now).failed # 0
        /\ tk.type # "refresh" =>
              UserRefreshToken(Reachable(store), tk, now).err # ""

(***************************************************************************)
(* C35: both the gatekeeper and RefreshToken reject every token whose      *)
(* signing algorithm is not of the HMAC family, before the signature is    *)
(* checked and whatever the token's claims are.                            *)
(***************************************************************************)
\* the tokens issued and a token without claims, re-signed with a method
\* outside the family, with a signature that verifies and with one that
\* does not
OtherMethods == {"RS256", "ES256", "none"}

Resigned ==
    {[tk EXCEPT !.alg = a, !.sig = s] :
        tk \in issued \cup {NoToken}, a \in OtherMethods, s \in BOOLEAN}

C35_NonHmacRejected ==
    \A tk \in Resigned \cup {x \in Presentable : x.alg \notin SigningMethodHMAC} :
        LET a == AuthMiddleware(Bearer(tk), Reachable(store), now)
            r == UserRefreshToken(Reachable(store), tk, now)
        IN  /\ a.failed = 2
            /\ a.status = 401
            /\ a.message = "Invalid or expired token"
            /\ ~a.next
            /\ a.c.n = 0
            /\ r.err = "invalid refresh token"
            /\ r.tokens = {}
            /\ r.c.n = 0
            /\ r.c.store = store

\* a request that presented a token signed with RS256, whose signature
\* verifies and whose session is valid, was refused at the token check
C35_Witness ==
    /\ Asked
    /\ resp.header.token.alg = "RS256"
    /\ resp.header.token.sig
    /\ resp.pre[3]
    /\ resp.failed = 2
    /\ resp.status = 401

(***************************************************************************)
(* C36: the gatekeeper fails closed: if the session lookup, the            *)
(* token-blacklist lookup or the user-session-blacklist lookup fails with  *)
(* a cache-store error, the request is rejected (401) and the protected    *)
(* handler does not run.                                                   *)
(***************************************************************************)
\* the gatekeeper issues at most six cache operations
GateFaults == {n \in Faults : n.from <= 6 /\ n.at \subseteq 1..6}

C36_FailClosed ==
    /\ \A h \in Headers, n \in GateFaults :
          LET a == AuthMiddleware(h, Handle(store, n), now) IN
          a.c.hit =>
             /\ a.status = 401
             /\ a.failed \in 3..5
             /\ ~a.next
             /\ a.ctx = NoCtx
    /\ (Asked /\ resp.hit /\ resp.failed # 0) =>
          /\ resp.status = 401
          /\ resp.handler = ""

\* a request that passes all five checks was refused because the
\* token-blacklist lookup failed
C36_Witness ==
    /\ Asked
    /\ resp.hit
    /\ \A i \in 1..5 : resp.pre[i]
    /\ resp.failed = 4
    /\ resp.status = 401
    /\ resp.handler = ""

(***************************************************************************)
(* C37: a product update changes only the fields present in the update     *)
(* request: for every subset of {name, description, price, stock}          *)
(* supplied, each field that is omitted keeps the value it had in the      *)
(* store before the update (in particular, an update that supplies only    *)
(* the name leaves the stock unchanged).                                   *)
(***************************************************************************)
C37_UpdateKeepsOmittedFields ==
    (reply.op = "Update" /\ reply.err = "") =>
        LET old == reply.before[reply.id]
            new == products[reply.id]
            req == reply.query
        IN  /\ new.name = IF req.name.set THEN req.name.v ELSE old.name
            /\ new.description = old.description
            /\ new.price = IF req.price.set THEN req.price.v ELSE old.price
            /\ new.stock = IF req.stock.set THEN req.stock.v ELSE old.stock
            /\ new.id = old.id
            /\ new.user_id = old.user_id
            /\ new.created_at = old.created_at

(***************************************************************************)
(* C38: with no concurrent request in flight, after a successful           *)
(* Delete(id) by the owner a later GetByID(id) by the owner returns not    *)
(* found, and after a successful Update of the product a later GetByID(id) *)
(* returns the updated values, even when the product had been read (and    *)
(* cached) before the mutation.  Requests are served one after another; a  *)
(* product that was created and is no longer in the table was deleted, and *)
(* the row in the table holds the values of the last update.               *)
(***************************************************************************)
C38_ReadAfterMutation ==
    reply.op = "GetByID" =>
        /\ reply.id \in minted \ DOMAIN products =>
              /\ reply.err # ""
              /\ reply.status = 404
        /\ (reply.err = "" /\ reply.id \in DOMAIN products) =>
              reply.value = products[reply.id]

\* the products of the walking or asking user that match the filter of the
\* request, in the order in which the request sorts them
Matching ==
    applySorting(
        applyFilters(SelectSeq(Rows(Database(reply.before, reply.direct, TRUE)),
                               LAMBDA r : r.user_id = reply.user),
                     reply.query.filter),
        reply.query.sort)

Ids(rows) == {rows[k].id : k \in DOMAIN rows}

\* C39: in a walk of GET /products/cursor that starts without a cursor and
\* passes each returned next_cursor on, with page_size, filter and sort fixed
\* and the store unchanged, no product is returned twice, has_next is true
\* exactly when matching products of the user remain beyond the pages
\* returned so far, and so the finished walk has returned every one of them
C39_CursorWalkComplete ==
    (reply.op = "GetProductsWithCursor" /\ reply.err = "") =>
        /\ \A i, j \in DOMAIN reply.lost :
              reply.lost[i].id = reply.lost[j].id => i = j
        /\ Ids(reply.lost) \subseteq Ids(Matching)
        /\ reply.value.has_next <=> (Ids(Matching) \ Ids(reply.lost) # {})

\* the least number of pages of pageSize products that hold total products
Ceiling(total, pageSize) ==
    CHOOSE n \in 0..total : n * pageSize >= total /\ (n = 0 \/ (n - 1) * pageSize < total)

\* C40: a page of GET /products/filtered asked with page >= 1 and
\* 1 <= page_size <= 100 reports total_pages as the ceiling of
\* total / page_size, has_next exactly when page * page_size < total,
\* has_prev exactly when page > 1, and holds the products of the sorted
\* matching list from offset (page - 1) * page_size on, page_size at most
C40_OffsetPage ==
    (reply.op = "GetProductsWithFilters" /\ reply.err = "") =>
        LET list == reply.value
            page == reply.query.pagination.page
            pageSize == reply.query.pagination.page_size
            total == Len(Matching)
            offset == (page - 1) * pageSize
            rest == IF total > offset THEN total - offset ELSE 0
        IN  /\ list.total = total
            /\ list.total_pages = Ceiling(total, pageSize)
            /\ list.has_next <=> (page * pageSize < total)
            /\ list.has_prev <=> (page > 1)
            /\ Len(list.products) <= pageSize
            /\ Len(list.products) = IF rest < pageSize THEN rest ELSE pageSize
            /\ \A k \in DOMAIN list.products :
                  list.products[k] = Matching[offset + k]

\* the second page of one product each, of a user who has two products
C40_Witness ==
    /\ reply.op = "GetProductsWithFilters"
    /\ reply.err = ""
    /\ reply.query.pagination.page = 2
    /\ reply.query.pagination.page_size = 1
    /\ reply.value.total = 2
    /\ Len(reply.value.products) = 1
    /\ reply.value.has_prev
    /\ ~reply.value.has_next

====
